---- MODULE Spec2Model ----
(***************************************************************************)
(* Verification model of the domain analysis pipeline:                     *)
(*   - HTTPFetcher (app/services/fetcher.py): fetch_url, _rate_limit        *)
(*   - analyze_domain.process_url / fetch_multiple_urls (semaphore)         *)
(*   - SitemapService URL selection (app/services/sitemap.py)               *)
(*   - Settings / ScoringWeights (app/config.py)                            *)
(* Time is counted in whole seconds and kept as elapsed time: the seconds  *)
(* since the last request to a host, the seconds left of a sleep.          *)
(***************************************************************************)
EXTENDS Integers, Sequences, FiniteSets, TLC

(***************************************************************************)
(* Bounds of the model                                                     *)
(***************************************************************************)
NumTasks == 3          \* most page tasks created by one gather()
MaxConcurrent == 2     \* settings.max_concurrent_requests of the run
MaxRetries == 1        \* largest retries argument in a run of several URLs

(***************************************************************************)
(* Program constants                                                       *)
(***************************************************************************)
min_delay == 1         \* fetcher.py:114
retries_default == 3   \* fetcher.py:60

Tasks == 1..NumTasks
Hosts == {"a.example", "b.example"}

\* Outcome of one client.get + raise_for_status (fetcher.py:80-81)
Outcomes == {"200", "401", "403", "404", "500", "RequestError", "Exception"}

VARIABLES
    retries,            \* the retries argument of the fetch_url calls
    host,               \* urlparse(url).netloc of each task's URL
    pc,                 \* where each task is suspended
    attempt,            \* loop variable of fetch_url
    timer,              \* seconds left of the asyncio.sleep a task is in
    permits,            \* value of the asyncio.Semaphore
    time_since_last,    \* per host in HTTPFetcher.last_request_time: the
                        \* seconds since that time, counted up to min_delay
    result,             \* what the page task gave back to gather()
    log                 \* what the step just taken did (the logger line)

fetchVars == <<retries, host, pc, attempt, timer, permits, time_since_last,
               result, log>>

\* SitemapService.get_intelligent_urls (sitemap.py:704-741)
VARIABLES
    sel_pc,             \* position in get_intelligent_urls
    max_urls,           \* its max_urls argument
    urls_with_dates,    \* the records parsed from the sitemap
    urls_to_categorize, \* local of _select_intelligent_urls
    sel_path,           \* the return statement that produced the result
    selected_urls       \* the list get_intelligent_urls returns

selVars == <<sel_pc, max_urls, urls_with_dates, urls_to_categorize, sel_path,
             selected_urls>>

\* Settings.scoring_weights and PUT /scoring-weights (config.py, main.py)
VARIABLES
    scoring_weights,    \* the five weights, as exact fractions num[i] / den
    n_updates,          \* PUT /scoring-weights requests handled so far
    w_request,          \* the body of the latest request
    w_status            \* the HTTP status of its response

weightVars == <<scoring_weights, n_updates, w_request, w_status>>

\* KeywordScorer.calculate_keyword_score (scorer.py:27-73)
VARIABLES
    score_pc,           \* "call" before, "done" after the call
    sub_results,        \* what each of the five sub-score computations does
    weights_arg,        \* the weights the formula reads
    final_score         \* the value returned, in ten-thousandths

scoreVars == <<score_pc, sub_results, weights_arg, final_score>>

\* KeywordScorer.bucketize_keywords (scorer.py:271-324)
VARIABLES
    bucket_pc,          \* "call" before, "done" after the call
    keywords_arg,       \* the list of scored keywords
    page_type,          \* "ecommerce", "blog" or "mixto"
    buckets             \* the dict returned

bucketVars == <<bucket_pc, keywords_arg, page_type, buckets>>

\* NLPService._deduplicate_by_similarity (nlp.py:232-278), run on a list
\* and then on its own output
VARIABLES
    dd_pc,              \* "start", "loop" (before a comparison), "filter", "done"
    dd_pass,            \* 1 for the first run, 2 for the run on its output
    dd_keywords,        \* the keywords argument of the run
    similarity_matrix,  \* cosine similarity of each pair of terms
    dd_i, dd_j,         \* the loop indices of the comparison to come
    to_remove,          \* the indices marked so far
    first_output,       \* what the first run returned
    dd_log              \* the comparison just made

dedupVars == <<dd_pc, dd_pass, dd_keywords, similarity_matrix, dd_i, dd_j,
               to_remove, first_output, dd_log>>

\* NLPService._merge_keyword_results (nlp.py:189-230)
VARIABLES
    merge_pc,           \* "call" before, "done" after the call
    yake_results,       \* the keywords of the first provider
    keybert_results,    \* the keywords of the second provider
    merge_similarity,   \* cosine similarity of each pair of merged terms
    merged_keywords,    \* the local list after the exact-match stage
    final_keywords      \* the list returned

mergeVars == <<merge_pc, yake_results, keybert_results, merge_similarity,
               merged_keywords, final_keywords>>

\* KeywordScorer._calculate_similarity_score (scorer.py:225-269)
VARIABLES
    sim_pc,             \* "call" before, "done" after the call
    keyword_arg,        \* the keyword, a string
    brand_info,         \* the brand name, a string, and the brand domain
    similarity_score    \* the value returned, in hundredths

simVars == <<sim_pc, keyword_arg, brand_info, similarity_score>>

\* analyze_domain (main.py:190-330)
VARIABLES
    dom_pc,             \* "discover", "process" or "done"
    urls_to_process,    \* what get_intelligent_urls returned
    chain,              \* per page: "pending", "running" or how its chain ended
    results,            \* what asyncio.gather returned, one entry per task
    response            \* what the request ends with

domVars == <<dom_pc, urls_to_process, chain, results, response>>

\* _create_domain_summary (main.py:404-451)
VARIABLES
    agg_pc,             \* "call" before, "done" after the two calls
    url_results,        \* the page results, in the order they are handed over
    permuted_results,   \* the same page results in another order
    domain_summary,     \* the summary of url_results
    permuted_summary    \* the summary of permuted_results

aggVars == <<agg_pc, url_results, permuted_results, domain_summary,
             permuted_summary>>

\* SitemapService.parse_sitemap and parse_sitemap_with_dates
\* (sitemap.py:94-166, 443-488)
VARIABLES
    smap_pc,            \* "run" while the outermost call is open, then "done"
    variant,            \* which of the two functions is called
    sitemap_docs,       \* what each sitemap URL serves
    call_stack,         \* the open calls, the outermost first
    processed_sitemaps, \* SitemapService.processed_sitemaps
    nest_cut,           \* whether call_stack has left out outer calls
    smap_result,        \* what the outermost call returned
    smap_call           \* the max_urls of the outermost call, whether it is the
                        \* first or the second call on the service, and what
                        \* the first call returned

smapVars == <<smap_pc, variant, sitemap_docs, call_stack, processed_sitemaps,
              nest_cut, smap_result, smap_call>>

\* the domain-level operations
runVars == <<domVars, aggVars, smapVars>>

\* SitemapService.discover_sitemap (sitemap.py:27-92)
VARIABLES
    disc_pc,            \* "candidates", "robots" or "done"
    candidate_ok,       \* which candidate paths are answered with HTTP 200
    robots,             \* whether robots.txt is answered with 200, and its lines
    next_candidate,     \* the position in sitemap_candidates
    probed,             \* the URLs fetched so far, in order
    disc_result         \* what discover_sitemap returned

discVars == <<disc_pc, candidate_ok, robots, next_candidate, probed, disc_result>>

\* KeywordScorer._classify_keyword_bucket (scorer.py:326-389)
VARIABLES
    cls_pc,             \* "call" or "done"
    cls_keyword,        \* the keyword
    cls_page_type,      \* the page type
    cls_brand_info,     \* brand_info['name'] and brand_info['domain']
    domain_keywords,    \* None, or the frequency map of the domain
    cls_result          \* the returned bucket, and whether the except
                        \* clause was taken

clsVars == <<cls_pc, cls_keyword, cls_page_type, cls_brand_info, domain_keywords,
             cls_result>>

\* the page tasks of analyze_domain and settings.scoring_weights
\* (main.py:228-274, scorer.py:41-59)
VARIABLES
    page_pc,            \* per page: "queued", "extracting" or "scored"
    weights_used        \* per scored page: the weights its keywords were
                        \* scored with

scoredVars == <<page_pc, weights_used>>

\* the operations modelled on their own
extraVars == <<discVars, clsVars, scoredVars>>

\* the keyword pipeline of a page: scoring and what follows it
pipeVars == <<scoreVars, bucketVars, dedupVars, mergeVars, simVars>>

vars == <<fetchVars, selVars, weightVars, pipeVars, runVars, extraVars>>

\* the variables a step of the fetch stage leaves alone
FetchOnly == UNCHANGED <<selVars, weightVars, pipeVars, runVars, extraVars>>

\* A step that issues no GET and ends no attempt
NoLog == [kind |-> "none", task |-> 0, attempt |-> 0, outcome |-> "none",
          sleep |-> 0, ret |-> "none", host |-> "none", since |-> -1]

\* fetcher.py:79  "Descargando URL ... (intento n)": a GET goes out, `d`
\* seconds after the previous request to the host (-1: there was none)
GetLog(t, d) == [NoLog EXCEPT !.kind = "get", !.task = t,
                 !.attempt = attempt'[t], !.host = host[t], !.since = d]

\* fetcher.py:83,87,93,96,101,104: the attempt ended with outcome o; the call
\* then sleeps `s` seconds, or gives `r` back ("None", "response", "raised")
AttemptLog(t, o, s, r) == [NoLog EXCEPT !.kind = "attempt", !.task = t,
                           !.attempt = attempt[t], !.outcome = o, !.sleep = s,
                           !.ret = r]

(***************************************************************************)
(* HTTPFetcher.fetch_url and HTTPFetcher._rate_limit                       *)
(***************************************************************************)

\* mutant: 401 left out of the list of terminal statuses
TerminalStatus_no401(o) == o \in {"404", "403"}

\* fetcher.py:88  e.response.status_code in [404, 403, 401]
TerminalStatus(o) == o \in {"404", "403", "401"}

\* fetcher.py:81-84  raise_for_status() passes
Success(o) == o = "200"

\* mutant: the final `except Exception` clause is missing
Handled_noCatchAll(o) ==
    \/ o \in {"401", "403", "404", "500"}
    \/ o = "RequestError"

\* fetcher.py:86,92,95  the except clauses of the attempt
Handled(o) ==
    \/ o \in {"401", "403", "404", "500"}     \* except httpx.HTTPStatusError
    \/ o = "RequestError"                     \* except httpx.RequestError
    \/ o = "Exception"                        \* except Exception

\* mutant: off by one, sleeps and loops once more after the last attempt
BudgetLeft_offByOne(a, r) == a <= r

\* fetcher.py:98  if attempt < retries
BudgetLeft(a, r) == a < r

\* fetcher.py:100  wait_time = 2 ** attempt
BackoffWait(a) == 2 ^ a

\* fetcher.py:112-116  the throttle condition
MustThrottle(h) ==
    /\ h \in DOMAIN time_since_last
    /\ time_since_last[h] < min_delay

\* mutant: the semaphore lets a task in when its value is already 0
PermitFree_offByOne == permits >= 0

\* main.py:229 / fetcher.py:192  async with semaphore: a permit is free
PermitFree == permits > 0

\* fetcher.py:120 then fetcher.py:80: the timestamp is written and the GET
\* goes out without a suspension point in between
IssueGet(t) ==
    /\ time_since_last' =
           [h \in DOMAIN time_since_last \cup {host[t]} |->
               IF h = host[t] THEN 0 ELSE time_since_last[h]]
    /\ log' = GetLog(t, IF host[t] \in DOMAIN time_since_last
                        THEN time_since_last[host[t]] ELSE -1)
    /\ pc' = [pc EXCEPT ![t] = "get"]
    /\ timer' = [timer EXCEPT ![t] = 0]

\* fetcher.py:77, 107-118: entry of an attempt up to its first suspension
AttemptStart(t) ==
    IF MustThrottle(host[t])
    THEN /\ pc' = [pc EXCEPT ![t] = "throttle"]
         /\ timer' = [timer EXCEPT ![t] = min_delay - time_since_last[host[t]]]
         /\ log' = NoLog
         /\ UNCHANGED time_since_last
    ELSE IssueGet(t)

\* main.py:229-290 / fetcher.py:192-194: the task leaves `async with
\* semaphore` with value v (the locals of fetch_url are gone by then)
Leave(t, v) ==
    /\ pc' = [pc EXCEPT ![t] = "done"]
    /\ result' = [result EXCEPT ![t] = v]
    /\ attempt' = [attempt EXCEPT ![t] = 0]
    /\ permits' = permits + 1

\* main.py:229 / fetcher.py:192, then fetcher.py:74-80
Acquire(t) ==
    /\ FetchOnly
    /\ pc[t] = "queued"
    /\ PermitFree
    /\ permits' = permits - 1
    /\ attempt' = [attempt EXCEPT ![t] = 0]
    /\ AttemptStart(t)
    /\ UNCHANGED <<retries, host, result>>

\* fetcher.py:118-120, 80: the throttle sleep is over
ThrottleWake(t) ==
    /\ FetchOnly
    /\ pc[t] = "throttle"
    /\ timer[t] = 0
    /\ UNCHANGED attempt
    /\ IssueGet(t)
    /\ UNCHANGED <<retries, host, permits, result>>

\* fetcher.py:80-84 and main.py:233-252: the GET succeeded; parseOk says
\* whether parse/classify (main.py:237-248) ran without raising
GetSucceeds(t, parseOk) ==
    /\ FetchOnly
    /\ pc[t] = "get"
    /\ log' = AttemptLog(t, "200", 0, "response")
    /\ IF parseOk
       THEN /\ pc' = [pc EXCEPT ![t] = "analyze"]
            /\ attempt' = [attempt EXCEPT ![t] = 0]
            /\ UNCHANGED <<result, permits>>
       ELSE Leave(t, "None")
    /\ UNCHANGED <<retries, host, timer, time_since_last>>

\* fetcher.py:86-105: the attempt failed with outcome o
GetFails(t, o) ==
    /\ FetchOnly
    /\ pc[t] = "get"
    /\ ~Success(o)
    /\ IF ~Handled(o)
       THEN \* the exception leaves fetch_url; main.py:288 catches it
            /\ log' = AttemptLog(t, o, 0, "raised")
            /\ Leave(t, "None")
            /\ UNCHANGED timer
       ELSE IF ~TerminalStatus(o) /\ BudgetLeft(attempt[t], retries)
       THEN /\ pc' = [pc EXCEPT ![t] = "backoff"]
            /\ timer' = [timer EXCEPT ![t] = BackoffWait(attempt[t])]
            /\ log' = AttemptLog(t, o, BackoffWait(attempt[t]), "none")
            /\ UNCHANGED <<result, permits, attempt>>
       ELSE /\ log' = AttemptLog(t, o, 0, "None")
            /\ Leave(t, "None")
            /\ UNCHANGED timer
    /\ UNCHANGED <<retries, host, time_since_last>>

\* fetcher.py:102, 74-80: the backoff sleep is over, next attempt
BackoffWake(t) ==
    /\ FetchOnly
    /\ pc[t] = "backoff"
    /\ timer[t] = 0
    /\ attempt' = [attempt EXCEPT ![t] = @ + 1]
    /\ AttemptStart(t)
    /\ UNCHANGED <<retries, host, permits, result>>

\* main.py:252-290: the rest of the chain ends, with a page result or not
AnalyzeDone(t, ok) ==
    /\ FetchOnly
    /\ pc[t] = "analyze"
    /\ Leave(t, IF ok THEN "URLAnalysisResponse" ELSE "None")
    /\ log' = NoLog
    /\ UNCHANGED <<retries, host, timer, time_since_last>>

\* one second passes: asyncio.sleep and time.time() (fetcher.py:102,110,118)
Tick ==
    /\ FetchOnly
    /\ timer' = [t \in Tasks |-> IF timer[t] > 0 THEN timer[t] - 1 ELSE 0]
    /\ time_since_last' =
           [h \in DOMAIN time_since_last |->
               IF time_since_last[h] < min_delay
               THEN time_since_last[h] + 1 ELSE time_since_last[h]]
    /\ log' = NoLog
    /\ UNCHANGED <<retries, host, pc, attempt, permits, result>>

\* the URLs of a run: the first one on a host of its own, the others on
\* one common host
HostMaps == {[t \in Tasks |-> IF t = 1 THEN "b.example" ELSE "a.example"]}

\* main.py:293 / fetcher.py:196: one task per URL, n URLs.  A run of one URL
\* goes up to the default retries of fetch_url, longer runs up to MaxRetries.
FetchInit ==
    /\ \E n \in 1..NumTasks :
          /\ pc = [t \in Tasks |-> IF t <= n THEN "queued" ELSE "absent"]
          /\ retries \in 0..(IF n = 1 THEN retries_default ELSE MaxRetries)
    /\ host \in HostMaps
    /\ attempt = [t \in Tasks |-> 0]
    /\ timer = [t \in Tasks |-> 0]
    /\ permits = MaxConcurrent
    /\ time_since_last = << >>
    /\ result = [t \in Tasks |-> "pending"]
    /\ log = NoLog

FetchNext ==
    \/ \E t \in Tasks : Acquire(t)
    \/ \E t \in Tasks : ThrottleWake(t)
    \/ \E t \in Tasks, parseOk \in BOOLEAN : GetSucceeds(t, parseOk)
    \/ \E t \in Tasks, o \in Outcomes : GetFails(t, o)
    \/ \E t \in Tasks : BackoffWake(t)
    \/ \E t \in Tasks, ok \in BOOLEAN : AnalyzeDone(t, ok)
    \/ Tick

\* no page task exists
FetchIdle ==
    /\ pc = [t \in Tasks |-> "absent"]
    /\ retries = 0
    /\ host \in HostMaps
    /\ attempt = [t \in Tasks |-> 0]
    /\ timer = [t \in Tasks |-> 0]
    /\ permits = MaxConcurrent
    /\ time_since_last = << >>
    /\ result = [t \in Tasks |-> "pending"]
    /\ log = NoLog

(***************************************************************************)
(* SitemapService: URL records, categories, relevance, selection           *)
(*                                                                         *)
(* A URL is the sequence of its path segments ("https://host/a/b" is       *)
(* <<"a","b">>; a trailing slash is a last segment "").  A pattern such as  *)
(* r'/blog/' matches when a segment other than the last one is "blog".     *)
(* Scores are counted in thousandths, priorities in tenths, dates in days   *)
(* before now.                                                             *)
(***************************************************************************)

MaxRecords == 2        \* longest record list drawn from RecordPool
MaxUrls == 4           \* largest max_urls argument

recent_days == 5       \* sitemap.py:568

Max(a, b) == IF a > b THEN a ELSE b
Min(a, b) == IF a < b THEN a ELSE b

\* s[:n]
Take(s, n) == SubSeq(s, 1, Min(n, Len(s)))

InSeq(x, s) == \E i \in 1..Len(s) : s[i] = x

SeqsUpTo(S, n) == UNION {[1..k -> S] : k \in 0..n}

\* comparison of two key tuples of one length
KeyGt(a, b) ==
    \E i \in 1..Len(a) : a[i] > b[i] /\ \A j \in 1..(i - 1) : a[j] = b[j]

\* list.sort(key=..., reverse=True): descending and stable; keys[i] is the
\* key of s[i]
SortDesc(s, keys) ==
    LET n == Len(s)
        pos == [i \in 1..n |-> 1 + Cardinality({j \in 1..n :
                        KeyGt(keys[j], keys[i]) \/ (keys[j] = keys[i] /\ j < i)})]
    IN  [p \in 1..n |-> s[CHOOSE i \in 1..n : pos[i] = p]]

\* segments followed by a slash
Dirs(url) == {url[i] : i \in 1..(Len(url) - 1)}

LastSegment(url) == IF Len(url) = 0 THEN "/" ELSE url[Len(url)]

\* sitemap.py:629-630  r'/\d+$' and r'/[a-z0-9-]+-\d+$': the last segments of
\* the vocabulary that end in an id
EndsWithId(url) == LastSegment(url) \in {"123", "mouse-123"}

\* sitemap.py:624-632
is_product_url(url) ==
    \/ Dirs(url) \cap {"product", "products", "item", "items", "shop",
                       "tienda", "comprar", "buy"} # {}
    \/ EndsWithId(url)

\* sitemap.py:634-641
is_blog_url(url) ==
    Dirs(url) \cap {"blog", "news", "noticias", "articulos", "post", "posts",
                    "article", "articles", "tutorial", "guia", "guide"} # {}

\* sitemap.py:643-650
is_category_url(url) ==
    Dirs(url) \cap {"category", "categoria", "categorias", "section",
                    "seccion", "departamento", "department", "rubro"} # {}

\* sitemap.py:652-660
is_landing_page(url) ==
    \/ LastSegment(url) = ""
    \/ Dirs(url) \cap {"home", "inicio", "principal", "about", "acerca",
                       "nosotros", "contact", "contacto", "contactanos"} # {}

\* sitemap.py:603-612
CategoryOf(url) ==
    IF is_product_url(url) THEN "products"
    ELSE IF is_blog_url(url) THEN "blog"
    ELSE IF is_category_url(url) THEN "categories"
    ELSE IF is_landing_page(url) THEN "landing"
    ELSE "other"

\* sitemap.py:358-365
relevant_patterns ==
    {{"producto", "product", "item"}, {"articulo", "article", "post", "blog"},
     {"categoria", "category"}, {"servicio", "service"},
     {"nosotros", "about", "sobre"}, {"contacto", "contact"}}

\* sitemap.py:377-382
keyword_patterns ==
    {{"guia", "guide", "tutorial"}, {"mejor", "best", "top"},
     {"precio", "price", "cost"}, {"oferta", "offer", "deal"}}

\* sitemap.py:347-388
calculate_relevance_score(url, priority) ==
    LET base == 500 + priority * 30
        bonus == 100 * Cardinality({g \in relevant_patterns : Dirs(url) \cap g # {}})
        depth == Len(url)
        penalty == IF depth > 4 THEN 100 * (depth - 4) ELSE 0
        kw == 50 * Cardinality({g \in keyword_patterns : Dirs(url) \cap g # {}})
    IN  Max(0, Min(1000, base + bonus - penalty + kw))

\* lastmod: None, or a datetime `age` days before now, naive or tz-aware
NoDate == [dated |-> FALSE, age |-> 0, aware |-> FALSE]
Date(a, tz) == [dated |-> TRUE, age |-> a, aware |-> tz]

\* sitemap.py:538-548
Record(url, priority, lastmod) ==
    [url |-> url, lastmod |-> lastmod, priority |-> priority,
     relevance_score |-> calculate_relevance_score(url, priority)]

\* sitemap.py:569-570: comparing a tz-aware lastmod with the naive
\* datetime.now() raises TypeError
FilterRaises(urls) ==
    \E i \in 1..Len(urls) : urls[i].lastmod.dated /\ urls[i].lastmod.aware

\* sitemap.py:568-570  url['lastmod'] and url['lastmod'] >= five_days_ago
IsRecent(r) == r.lastmod.dated /\ r.lastmod.age <= recent_days

\* sitemap.py:575-579  not (len(recent_urls) < max_urls)
EnoughRecent(recent, m) == ~(Len(recent) < m)

\* sitemap.py:616-619  key (relevance_score, lastmod or datetime.min)
DateValue(r) == IF r.lastmod.dated THEN 0 - r.lastmod.age ELSE 0 - 1000000
ByRelevanceAndDate(urls) ==
    SortDesc(urls, [i \in 1..Len(urls) |->
                       <<urls[i].relevance_score, DateValue(urls[i])>>])

\* sitemap.py:691,701  key relevance_score
ByRelevance(urls) ==
    SortDesc(urls, [i \in 1..Len(urls) |-> <<urls[i].relevance_score>>])

\* sitemap.py:595-622: the dict of sorted lists, and its keys in insertion
\* order
categorize_urls(urls) ==
    [c \in {CategoryOf(urls[i].url) : i \in 1..Len(urls)} |->
        ByRelevanceAndDate(SelectSeq(urls, LAMBDA r : CategoryOf(r.url) = c))]

RECURSIVE KeyOrder(_, _)
KeyOrder(urls, seen) ==
    IF urls = << >> THEN << >>
    ELSE LET c == CategoryOf(Head(urls).url)
         IN  IF InSeq(c, seen) THEN KeyOrder(Tail(urls), seen)
             ELSE <<c>> \o KeyOrder(Tail(urls), Append(seen, c))

\* sitemap.py:667
priority_categories == <<"products", "blog", "categories", "landing", "other">>

\* sitemap.py:670-676
category_limits(m) ==
    [products |-> Max(1, m \div 3), blog |-> Max(1, m \div 4),
     categories |-> Max(1, m \div 6), landing |-> Max(1, m \div 8),
     other |-> Max(1, m \div 8)]

\* sitemap.py:681-683
RECURSIVE AppendWhileRoom(_, _, _)
AppendWhileRoom(sel, urls, m) ==
    IF urls = << >> THEN sel
    ELSE AppendWhileRoom(IF Len(sel) < m THEN Append(sel, Head(urls).url) ELSE sel,
                         Tail(urls), m)

\* sitemap.py:678-683
RECURSIVE QuotaLoop(_, _, _, _)
QuotaLoop(sel, i, cats, m) ==
    IF i > Len(priority_categories) THEN sel
    ELSE LET c == priority_categories[i]
         IN  QuotaLoop(IF c \in DOMAIN cats /\ Len(sel) < m
                       THEN AppendWhileRoom(sel, Take(cats[c], category_limits(m)[c]), m)
                       ELSE sel,
                       i + 1, cats, m)

\* mutant: the top-off does not look whether the URL is selected already
RECURSIVE FillLoop_noDedup(_, _, _)
FillLoop_noDedup(sel, urls, m) ==
    IF urls = << >> THEN sel
    ELSE FillLoop_noDedup(IF Len(sel) < m THEN Append(sel, Head(urls).url) ELSE sel,
                          Tail(urls), m)

\* sitemap.py:693-695
RECURSIVE FillLoop(_, _, _)
FillLoop(sel, urls, m) ==
    IF urls = << >> THEN sel
    ELSE FillLoop(IF ~InSeq(Head(urls).url, sel) /\ Len(sel) < m
                  THEN Append(sel, Head(urls).url) ELSE sel,
                  Tail(urls), m)

\* sitemap.py:687-689  for category_urls in categories.values()
RECURSIVE AllUrls(_, _)
AllUrls(order, cats) ==
    IF order = << >> THEN << >>
    ELSE cats[Head(order)] \o AllUrls(Tail(order), cats)

\* A selection that stops after the quotas
select_by_categories_quotasOnly(cats, order, m) ==
    Take(QuotaLoop(<< >>, 1, cats, m), m)

\* sitemap.py:662-697
select_by_categories(cats, order, m) ==
    LET quota == QuotaLoop(<< >>, 1, cats, m)
        filled == IF Len(quota) < m
                  THEN FillLoop(quota, ByRelevance(AllUrls(order, cats)), m)
                  ELSE quota
    IN  Take(filled, m)

\* mutant: the slice [:max_urls] is missing
select_by_relevance_noSlice(urls, m) ==
    LET sorted == ByRelevance(urls)
    IN  [i \in 1..Len(sorted) |-> sorted[i].url]

\* sitemap.py:699-702
select_by_relevance(urls, m) ==
    LET sorted == Take(ByRelevance(urls), m)
    IN  [i \in 1..Len(sorted) |-> sorted[i].url]

\* sitemap.py:403-437: the records of the first max_urls internal links
crawl_fallback(links, m) ==
    LET kept == Take(links, m)
    IN  [i \in 1..Len(kept) |->
            [url |-> kept[i], lastmod |-> NoDate, priority |-> 5,
             relevance_score |-> 500]]

(***************************************************************************)
(* Inputs of the selection: sitemap records and homepage links             *)
(***************************************************************************)

ProductUrls == {<<"product", "mouse">>, <<"shop", "mouse">>, <<"mouse-123">>,
                <<"shop", "a", "b", "c", "d", "mouse">>}

BlogUrls == {<<"blog", "review">>, <<"news", "review">>,
             <<"blog", "best", "guide", "review">>}

PoolUrls == {<<"product", "mouse">>, <<"blog", "review">>,
             <<"category", "mice">>, <<"faq">>}

\* (priority, lastmod) pairs: on and past the 5-day limit, undated, tz-aware
PoolAttrs == {<<9, Date(recent_days, FALSE)>>, <<5, Date(recent_days + 1, FALSE)>>,
              <<5, NoDate>>, <<5, Date(0, TRUE)>>}

RecordPool == {Record(u, a[1], a[2]) : u \in PoolUrls, a \in PoolAttrs}

Injective(s) == \A i, j \in 1..Len(s) : i # j => s[i] # s[j]

\* sitemaps of 3 product URLs (priority 0.9, modified today) and 2 blog URLs
\* (priority 0.5, modified 30 days ago), dated naive or tz-aware, in either
\* order of the two groups
ScenarioLists ==
    {IF productsFirst
     THEN [i \in 1..3 |-> Record(p[i], 9, Date(0, tz))]
          \o [i \in 1..2 |-> Record(b[i], 5, Date(30, tz))]
     ELSE [i \in 1..2 |-> Record(b[i], 5, Date(30, tz))]
          \o [i \in 1..3 |-> Record(p[i], 9, Date(0, tz))] :
        p \in {x \in [1..3 -> ProductUrls] : Injective(x)},
        b \in {x \in [1..2 -> BlogUrls] : Injective(x)},
        tz \in BOOLEAN, productsFirst \in BOOLEAN}

SitemapInputs == SeqsUpTo(RecordPool, MaxRecords) \cup ScenarioLists

LinkLists == SeqsUpTo(PoolUrls, MaxRecords)

MaxCandidates == 3     \* longest record list handed to the category selection
MaxQuotaUrls == 6      \* largest max_urls of the category selection

\* undated records of two product URLs and one URL of each other category;
\* one product URL is listed with two priorities
CandidatePool ==
    {Record(u, 5, NoDate) :
        u \in {<<"product", "mouse">>, <<"shop", "mouse">>, <<"blog", "review">>,
               <<"category", "mice">>, <<"about", "us">>, <<"faq">>}}
    \cup {Record(<<"product", "mouse">>, 9, NoDate)}

\* record lists in which a URL may occur in more than one record
CandidateLists == SeqsUpTo(CandidatePool, MaxCandidates) \ {<< >>}

(***************************************************************************)
(* SitemapService.get_intelligent_urls                                     *)
(***************************************************************************)

\* the variables a step of the selection leaves alone
SelOnly == UNCHANGED <<fetchVars, weightVars, pipeVars, runVars, extraVars>>

\* sitemap.py:718: discover_sitemap gives a sitemap URL or None
DiscoverSitemap(found) ==
    /\ sel_pc = "start"
    /\ sel_pc' = IF found THEN "sitemap" ELSE "no_sitemap"
    /\ UNCHANGED <<max_urls, urls_with_dates, urls_to_categorize, sel_path,
                   selected_urls>>
    /\ SelOnly

\* sitemap.py:726: parse_sitemap_with_dates gives the records
ParseSitemapWithDates(recs) ==
    /\ sel_pc = "sitemap"
    /\ urls_with_dates' = recs
    /\ sel_pc' = "parsed"
    /\ UNCHANGED <<max_urls, urls_to_categorize, sel_path, selected_urls>>
    /\ SelOnly

\* sitemap.py:720-723, 728-731: no sitemap or no records, crawl the homepage
CrawlFallback(links) ==
    /\ \/ sel_pc = "no_sitemap"
       \/ sel_pc = "parsed" /\ urls_with_dates = << >>
    /\ LET fallback_urls == Take(crawl_fallback(links, max_urls), max_urls)
       IN  selected_urls' = [i \in 1..Len(fallback_urls) |-> fallback_urls[i].url]
    /\ sel_path' = "crawl"
    /\ sel_pc' = "done"
    /\ UNCHANGED <<max_urls, urls_with_dates, urls_to_categorize>>
    /\ SelOnly

\* sitemap.py:734-737 and 554-593: _select_intelligent_urls
SelectIntelligentUrls ==
    /\ sel_pc = "parsed"
    /\ urls_with_dates # << >>
    /\ IF FilterRaises(urls_with_dates)
       THEN \* sitemap.py:590-593
            /\ selected_urls' = select_by_relevance(urls_with_dates, max_urls)
            /\ sel_path' = "relevance"
            /\ UNCHANGED urls_to_categorize
       ELSE LET recent_urls == SelectSeq(urls_with_dates, IsRecent)
                chosen == IF EnoughRecent(recent_urls, max_urls)
                          THEN recent_urls ELSE urls_with_dates
            IN  /\ urls_to_categorize' = chosen
                /\ selected_urls' =
                       select_by_categories(categorize_urls(chosen),
                                            KeyOrder(chosen, << >>), max_urls)
                /\ sel_path' = "categories"
    /\ sel_pc' = "done"
    /\ UNCHANGED <<max_urls, urls_with_dates>>
    /\ SelOnly

\* sitemap.py:716, 739-741: an exception inside get_intelligent_urls
GetUrlsRaises ==
    /\ sel_pc = "start"
    /\ selected_urls' = << >>
    /\ sel_path' = "error"
    /\ sel_pc' = "done"
    /\ UNCHANGED <<max_urls, urls_with_dates, urls_to_categorize>>
    /\ SelOnly

SelInit ==
    /\ sel_pc = "start"
    /\ max_urls \in 1..MaxUrls
    /\ urls_with_dates = << >>
    /\ urls_to_categorize = << >>
    /\ sel_path = "none"
    /\ selected_urls = << >>

\* get_intelligent_urls is not running
SelIdle ==
    /\ sel_pc = "idle"
    /\ max_urls = 1
    /\ urls_with_dates = << >>
    /\ urls_to_categorize = << >>
    /\ sel_path = "none"
    /\ selected_urls = << >>

\* parse_sitemap_with_dates has returned a record list
CategoriesInit ==
    /\ sel_pc = "parsed"
    /\ max_urls \in 1..MaxQuotaUrls
    /\ urls_with_dates \in CandidateLists
    /\ urls_to_categorize = << >>
    /\ sel_path = "none"
    /\ selected_urls = << >>

SelNext ==
    \/ \E found \in BOOLEAN : DiscoverSitemap(found)
    \/ \E recs \in SitemapInputs : ParseSitemapWithDates(recs)
    \/ \E links \in LinkLists : CrawlFallback(links)
    \/ SelectIntelligentUrls
    \/ GetUrlsRaises

(***************************************************************************)
(* Settings.scoring_weights and PUT /scoring-weights                       *)
(*                                                                         *)
(* The stored weights are exact fractions: five numerators over the common *)
(* denominator `den`, in lowest terms.  A request carries each field as     *)
(* None or as a number of halves (-1 is -0.5, 3 is 1.5).                    *)
(***************************************************************************)

MaxUpdates == 1        \* requests handled in a run

Fields == {"w1_frequency", "w2_tfidf", "w3_cooccurrence", "w4_position_title",
           "w5_similarity_brand"}

RECURSIVE GCD(_, _)
GCD(a, b) == IF b = 0 THEN a ELSE GCD(b, a % b)

\* the same fractions in lowest terms
Reduce(w) ==
    LET g == GCD(w.den, GCD(w.w1_frequency, GCD(w.w2_tfidf, GCD(w.w3_cooccurrence,
                 GCD(w.w4_position_title, w.w5_similarity_brand)))))
    IN  [f \in DOMAIN w |-> w[f] \div g]

\* config.py:20-21: the numerator of the sum
Total(w) == w.w1_frequency + w.w2_tfidf + w.w3_cooccurrence
            + w.w4_position_title + w.w5_similarity_brand

\* config.py:18-27
normalize_weights(w) ==
    IF Total(w) > 0
    THEN Reduce([f \in DOMAIN w |-> IF f = "den" THEN Total(w) ELSE w[f]])
    ELSE Reduce(w)

\* config.py:12-16: 0.3, 0.25, 0.2, 0.15, 0.1
default_weights ==
    [w1_frequency |-> 30, w2_tfidf |-> 25, w3_cooccurrence |-> 20,
     w4_position_title |-> 15, w5_similarity_brand |-> 10, den |-> 100]

\* a field of UpdateScoringWeightsRequest
None == [given |-> FALSE, halves |-> 0]
Given(v) == [given |-> TRUE, halves |-> v]

ReqValues == {None, Given(0 - 1), Given(0), Given(1), Given(3)}

\* the request bodies: any mix of absent and in-range fields, with at most
\* one field out of range
Requests ==
    {req \in [Fields -> ReqValues] :
        Cardinality({f \in Fields : req[f].halves < 0 \/ req[f].halves > 2}) <= 1}

\* mutant: the upper limit le=1 is missing
FieldValid_noUpper(x) == ~x.given \/ x.halves >= 0

\* schemas.py:38-42  Field(None, ge=0, le=1)
FieldValid(x) == ~x.given \/ (x.halves >= 0 /\ x.halves <= 2)

\* config.py:70-79: the fields of the request replace the stored ones
Assign(w, req) ==
    [f \in DOMAIN w |->
        IF f = "den" THEN 2 * w.den
        ELSE IF req[f].given THEN req[f].halves * w.den
        ELSE 2 * w[f]]

\* config.py:68-81
update_scoring_weights(w, req) == normalize_weights(Assign(w, req))

\* the variables a request leaves alone
WeightsOnly == UNCHANGED <<fetchVars, selVars, pipeVars, runVars, extraVars>>

\* main.py:349-383: request validation, then Settings.update_scoring_weights
PutScoringWeights(req) ==
    /\ n_updates < MaxUpdates
    /\ n_updates' = n_updates + 1
    /\ w_request' = req
    /\ IF \A f \in Fields : FieldValid(req[f])
       THEN /\ scoring_weights' = update_scoring_weights(scoring_weights, req)
            /\ w_status' = "200"
       ELSE /\ w_status' = "422"
            /\ UNCHANGED scoring_weights
    /\ WeightsOnly

\* config.py:63-66: Settings.__init__ normalizes the defaults
WeightsInit ==
    /\ scoring_weights = normalize_weights(default_weights)
    /\ n_updates = 0
    /\ w_request = [f \in Fields |-> None]
    /\ w_status = "none"

WeightsNext == \E req \in Requests : PutScoringWeights(req)


(***************************************************************************)
(* KeywordScorer.calculate_keyword_score                                   *)
(*                                                                         *)
(* Sub-scores and weights are counted in hundredths, their products and    *)
(* the final score in ten-thousandths.                                     *)
(***************************************************************************)

SubScoreNames == {"freq_score", "tfidf_score", "cooccurrence_score",
                  "position_score", "similarity_score"}

\* scorer.py:75-269: the body of a _calculate_*_score either computes a value
\* in [0,1] or raises
Raises == [raised |-> TRUE, value |-> 0]
Computes(v) == [raised |-> FALSE, value |-> v]

SubResults == {Raises} \cup {Computes(v) : v \in {0, 50, 100}}

\* scorer.py:122-124, 140-142, 188-190, 221-223, 267-269: each _calculate_*
\* catches what its body raises and returns 0.0
SubScore(r) == IF r.raised THEN 0 ELSE r.value

WeightVector(a, b, c, d, e) ==
    [is_dict |-> FALSE, w1_frequency |-> a, w2_tfidf |-> b,
     w3_cooccurrence |-> c, w4_position_title |-> d, w5_similarity_brand |-> e]

\* scorer.py:27-28, 41-42: settings.scoring_weights as constructed, weights
\* that sum to 0, weights above 1 and below 0, and a dict as the annotation
\* Optional[Dict[str, float]] asks for (it has no attribute w1_frequency)
WeightArgs ==
    {WeightVector(30, 25, 20, 15, 10), WeightVector(0, 0, 0, 0, 0),
     WeightVector(100, 100, 100, 100, 100),
     WeightVector(0 - 50, 0 - 50, 0 - 50, 0 - 50, 0 - 50),
     [WeightVector(0, 0, 0, 0, 0) EXCEPT !.is_dict = TRUE]}

\* scorer.py:52-58
WeightedSum(w, sub) ==
    w.w1_frequency * SubScore(sub.freq_score)
    + w.w2_tfidf * SubScore(sub.tfidf_score)
    + w.w3_cooccurrence * SubScore(sub.cooccurrence_score)
    + w.w4_position_title * SubScore(sub.position_score)
    + w.w5_similarity_brand * SubScore(sub.similarity_score)

\* mutant: the upper limit of the clamp is missing
Clamp01_noUpper(x) == Max(0, x)

\* scorer.py:61  max(0.0, min(1.0, final_score))
Clamp01(x) == Max(0, Min(10000, x))

\* the variables a step of the scorer leaves alone
ScoreOnly ==
    UNCHANGED <<fetchVars, selVars, weightVars, bucketVars, dedupVars, mergeVars,
                simVars, runVars, extraVars>>

\* scorer.py:27-73
CalculateKeywordScore ==
    /\ score_pc = "call"
    /\ final_score' = IF weights_arg.is_dict
                      THEN 0       \* AttributeError at line 53, lines 71-73
                      ELSE Clamp01(WeightedSum(weights_arg, sub_results))
    /\ score_pc' = "done"
    /\ UNCHANGED <<sub_results, weights_arg>>
    /\ ScoreOnly

ScoreInit ==
    /\ score_pc = "call"
    /\ sub_results \in [SubScoreNames -> SubResults]
    /\ weights_arg \in WeightArgs
    /\ final_score = 0

\* calculate_keyword_score is not running
ScoreIdle ==
    /\ score_pc = "idle"
    /\ sub_results = [n \in SubScoreNames |-> Computes(0)]
    /\ weights_arg = WeightVector(0, 0, 0, 0, 0)
    /\ final_score = 0

ScoreNext == CalculateKeywordScore

(***************************************************************************)
(* KeywordScorer.bucketize_keywords                                        *)
(*                                                                         *)
(* A term is a pair <<i, kind>>: its identity and what the string tests of  *)
(* _classify_keyword_bucket find in it.  Scores are in hundredths.         *)
(***************************************************************************)

MaxKeywords == 31      \* longest list of scored keywords

bucket_limit == 30     \* scorer.py:309

\* "brand": contains or is contained in the brand name or domain
\* "domain_high" / "domain_low": a key of domain_keywords, frequency above
\*     0.1 or not
\* "product_kw" / "blog_kw": contains one of product_keywords / blog_keywords
\* "plain": none of these
TermKinds == <<"brand", "domain_high", "domain_low", "product_kw", "blog_kw",
               "plain">>

PageTypes == {"ecommerce", "blog", "mixto"}

BucketNames == {"cliente", "producto_o_post", "generales_seo"}

\* scorer.py:326-389
classify_keyword_bucket(term, type) ==
    LET kind == term[2]
    IN  IF kind \in {"brand", "domain_high"} THEN "cliente"
        ELSE IF type = "ecommerce"
        THEN IF kind = "product_kw" THEN "producto_o_post"
             ELSE IF kind = "domain_low" THEN "generales_seo"
             ELSE "producto_o_post"
        ELSE IF type = "blog"
        THEN IF kind = "blog_kw" THEN "producto_o_post"
             ELSE IF kind = "domain_low" THEN "generales_seo"
             ELSE "producto_o_post"
        ELSE IF kind = "domain_low" THEN "generales_seo"
             ELSE "producto_o_post"

\* scorer.py:307  key score
ByScore(kws) == SortDesc(kws, [i \in 1..Len(kws) |-> <<kws[i].score>>])

\* scorer.py:291-309
bucketize_keywords(kws, type) ==
    [b \in BucketNames |->
        Take(ByScore(SelectSeq(kws, LAMBDA k :
                 classify_keyword_bucket(k.term, type) = b)), bucket_limit)]

\* the lists of n scored keywords with distinct terms: all of one kind or of
\* the kinds in turn, with equal, falling or rising scores
KindPatterns == {"brand", "domain_high", "domain_low", "product_kw",
                 "blog_kw", "plain", "in_turn"}

ScorePatterns == {"equal", "falling", "rising"}

KeywordList(n, kp, sp) ==
    [i \in 1..n |->
        [term |-> <<i, IF kp = "in_turn" THEN TermKinds[(i % Len(TermKinds)) + 1]
                       ELSE kp>>,
         score |-> IF sp = "equal" THEN 50
                   ELSE IF sp = "falling" THEN 100 - i ELSE i]]

KeywordLists ==
    {KeywordList(n, kp, sp) :
        n \in 0..MaxKeywords, kp \in KindPatterns, sp \in ScorePatterns}

\* the variables a step of the bucketizer leaves alone
BucketOnly ==
    UNCHANGED <<fetchVars, selVars, weightVars, scoreVars, dedupVars, mergeVars,
                simVars, runVars, extraVars>>

\* scorer.py:271-324
BucketizeKeywords ==
    /\ bucket_pc = "call"
    /\ buckets' = bucketize_keywords(keywords_arg, page_type)
    /\ bucket_pc' = "done"
    /\ UNCHANGED <<keywords_arg, page_type>>
    /\ BucketOnly

BucketInit ==
    /\ bucket_pc = "call"
    /\ keywords_arg \in KeywordLists
    /\ page_type \in PageTypes
    /\ buckets = [b \in BucketNames |-> << >>]

\* bucketize_keywords is not running
BucketIdle ==
    /\ bucket_pc = "idle"
    /\ keywords_arg = << >>
    /\ page_type = "mixto"
    /\ buckets = [b \in BucketNames |-> << >>]

BucketNext == BucketizeKeywords

(***************************************************************************)
(* NLPService._deduplicate_by_similarity                                   *)
(*                                                                         *)
(* Terms are numbered; the embedding of a term, and so the similarity of   *)
(* two terms, depends on the terms only.  Scores and similarities are in   *)
(* hundredths.  One step is one comparison of the double loop.             *)
(***************************************************************************)

MaxTerms == 4          \* longest keyword list handed to the deduplication

similarity_threshold == 85     \* config.py:47

TermPairs(n) == {p \in (1..n) \X (1..n) : p[1] < p[2]}

\* nlp.py:248  similarity_matrix[i][j] of the terms at positions i < j
SimilarityOf(kws, sim, i, j) ==
    LET a == kws[i].term
        b == kws[j].term
    IN  IF a < b THEN sim[<<a, b>>] ELSE sim[<<b, a>>]

\* nlp.py:260
Exceeds(x) == x > similarity_threshold

\* mutant: on equal scores the earlier term is removed
Loser_tieRemovesFirst(i, j, si, sj) == IF si > sj THEN j ELSE i

\* nlp.py:262-265: the index that is marked
Loser(i, j, si, sj) == IF si >= sj THEN j ELSE i

\* mutant: the row ends after any removal
RowEnds_always(si, sj) == TRUE

\* nlp.py:262-266: break when the row term itself was removed
RowEnds(si, sj) == ~(si >= sj)

\* nlp.py:252-258: the next pair the loops compare, from row i on and in row
\* i after column j; rows and columns that are marked are skipped
PairsFrom(n, rem, i, j, rowOpen) ==
    {p \in TermPairs(n) :
        /\ p[1] \notin rem /\ p[2] \notin rem
        /\ \/ p[1] > i
           \/ p[1] = i /\ rowOpen /\ p[2] > j}

FirstPair(P) ==
    CHOOSE p \in P : \A q \in P : p[1] < q[1] \/ (p[1] = q[1] /\ p[2] <= q[2])

NoComparison == [row |-> 0, col |-> 0, exceeded |-> FALSE, removed |-> 0,
                 marked_before |-> 0]

\* the variables a step of the deduplication leaves alone
DedupOnly ==
    UNCHANGED <<fetchVars, selVars, weightVars, scoreVars, bucketVars, mergeVars,
                simVars, runVars, extraVars>>

\* where the loops go after the comparison of (i, j)
Advance(rem, i, j, rowOpen) ==
    LET P == PairsFrom(Len(dd_keywords), rem, i, j, rowOpen)
    IN  IF P = {}
        THEN dd_pc' = "filter" /\ dd_i' = 0 /\ dd_j' = 0
        ELSE dd_pc' = "loop" /\ dd_i' = FirstPair(P)[1] /\ dd_j' = FirstPair(P)[2]

\* nlp.py:236-237, 251: a list of at most one keyword is returned as it is,
\* a longer one enters the loops with nothing marked
DedupStart ==
    /\ dd_pc = "start"
    /\ to_remove' = {}
    /\ dd_log' = NoComparison
    /\ IF Len(dd_keywords) <= 1
       THEN dd_pc' = "filter" /\ dd_i' = 0 /\ dd_j' = 0
       ELSE Advance({}, 0, 0, TRUE)
    /\ UNCHANGED <<dd_pass, dd_keywords, similarity_matrix, first_output>>
    /\ DedupOnly

\* nlp.py:259-269: one comparison
DedupCompare ==
    /\ dd_pc = "loop"
    /\ LET si == dd_keywords[dd_i].score
           sj == dd_keywords[dd_j].score
           hit == Exceeds(SimilarityOf(dd_keywords, similarity_matrix, dd_i, dd_j))
           rem == IF hit THEN to_remove \cup {Loser(dd_i, dd_j, si, sj)}
                  ELSE to_remove
       IN  /\ to_remove' = rem
           /\ dd_log' = [row |-> dd_i, col |-> dd_j, exceeded |-> hit,
                         removed |-> IF hit THEN Loser(dd_i, dd_j, si, sj) ELSE 0,
                         marked_before |-> Cardinality(to_remove)]
           /\ Advance(rem, dd_i, dd_j, ~(hit /\ RowEnds(si, sj)))
    /\ UNCHANGED <<dd_pass, dd_keywords, similarity_matrix, first_output>>
    /\ DedupOnly

\* nlp.py:274-277: the keywords that are not marked; the first result is
\* handed to a second run
DedupFilter ==
    /\ dd_pc = "filter"
    /\ LET unmarked ==
               SelectSeq([i \in 1..Len(dd_keywords) |->
                             [pos |-> i, kw |-> dd_keywords[i]]],
                         LAMBDA x : x.pos \notin to_remove)
           out == [i \in 1..Len(unmarked) |-> unmarked[i].kw]
       IN  /\ dd_keywords' = out
           /\ first_output' = IF dd_pass = 1 THEN out ELSE first_output
    /\ dd_pc' = IF dd_pass = 1 THEN "start" ELSE "done"
    /\ dd_pass' = 2
    /\ to_remove' = {}
    /\ dd_log' = NoComparison
    /\ UNCHANGED <<similarity_matrix, dd_i, dd_j>>
    /\ DedupOnly

\* the lists of n keywords with terms 1..n, and the similarities of the terms:
\* at the threshold and above it
DedupInit ==
    /\ dd_pc = "start"
    /\ dd_pass = 1
    /\ \E n \in 0..MaxTerms :
          /\ dd_keywords \in {[i \in 1..n |-> [term |-> i, score |-> sc[i]]] :
                                 sc \in [1..n -> {85, 90}]}
          /\ similarity_matrix \in [TermPairs(n) -> {85, 95}]
    /\ dd_i = 0
    /\ dd_j = 0
    /\ to_remove = {}
    /\ first_output = << >>
    /\ dd_log = NoComparison

\* _deduplicate_by_similarity is not running
DedupIdle ==
    /\ dd_pc = "idle"
    /\ dd_pass = 1
    /\ dd_keywords = << >>
    /\ similarity_matrix = << >>
    /\ dd_i = 0
    /\ dd_j = 0
    /\ to_remove = {}
    /\ first_output = << >>
    /\ dd_log = NoComparison

DedupNext == DedupStart \/ DedupCompare \/ DedupFilter

(***************************************************************************)
(* NLPService._merge_keyword_results                                       *)
(*                                                                         *)
(* A term is [base, upper]: the number of its case-normalized form and     *)
(* whether it is written with capitals.  The source tag is the set of the  *)
(* providers it names.  Scores are in hundredths.                          *)
(***************************************************************************)

MaxMergeTerms == 2     \* distinct case-normalized terms the providers emit

\* nlp.py:252-269 as one computation: the indices the double loop marks,
\* from the comparison after (i, j) on
RECURSIVE Marks(_, _, _, _, _, _)
Marks(kws, sim, rem, i, j, rowOpen) ==
    LET P == PairsFrom(Len(kws), rem, i, j, rowOpen)
    IN  IF P = {} THEN rem
        ELSE LET p == FirstPair(P)
                 si == kws[p[1]].score
                 sj == kws[p[2]].score
                 hit == Exceeds(SimilarityOf(kws, sim, p[1], p[2]))
             IN  Marks(kws, sim,
                       IF hit THEN rem \cup {Loser(p[1], p[2], si, sj)} ELSE rem,
                       p[1], p[2], ~(hit /\ RowEnds(si, sj)))

\* nlp.py:236-237, 251-269
MarkedBySimilarity(kws, sim) ==
    IF Len(kws) <= 1 THEN {} ELSE Marks(kws, sim, {}, 0, 0, TRUE)

\* nlp.py:203  kw['term'].lower().strip()
NormalizedTerm(kw) == kw.term.base

\* nlp.py:201-206: the keys of exact_groups in insertion order
RECURSIVE GroupKeys(_, _)
GroupKeys(kws, seen) ==
    IF kws = << >> THEN << >>
    ELSE LET t == NormalizedTerm(Head(kws))
         IN  IF t \in seen THEN GroupKeys(Tail(kws), seen)
             ELSE <<t>> \o GroupKeys(Tail(kws), seen \cup {t})

RECURSIVE SumScores(_)
SumScores(group) ==
    IF group = << >> THEN 0 ELSE Head(group).score + SumScores(Tail(group))

\* mutant: the score of the first occurrence is kept
Mean_first(group) == group[1].score

\* nlp.py:216  np.mean; the scores drawn are such that the mean is a whole
\* number of hundredths
Mean(group) == SumScores(group) \div Len(group)

\* nlp.py:199-219
MergeExact(yake, keybert) ==
    LET all_keywords == yake \o keybert
        keys == GroupKeys(all_keywords, {})
    IN  [k \in 1..Len(keys) |->
            LET group == SelectSeq(all_keywords,
                                   LAMBDA kw : NormalizedTerm(kw) = keys[k])
            IN  IF Len(group) = 1 THEN group[1]
                ELSE [term |-> group[1].term,
                      score |-> Mean(group),
                      source |-> UNION {group[i].source : i \in 1..Len(group)}]]

\* nlp.py:222: the merged keywords that _deduplicate_by_similarity keeps
DedupMerged(merged, sim) ==
    LET kws == [i \in 1..Len(merged) |->
                   [term |-> merged[i].term.base, score |-> merged[i].score]]
        rem == MarkedBySimilarity(kws, sim)
        kept == SelectSeq([i \in 1..Len(merged) |-> [pos |-> i, kw |-> merged[i]]],
                          LAMBDA x : x.pos \notin rem)
    IN  [i \in 1..Len(kept) |-> kept[i].kw]

\* what a provider returns: keywords with distinct case-normalized terms
ProviderResults(provider, cases, scores) ==
    {r \in SeqsUpTo([term : [base : 1..MaxMergeTerms, upper : cases],
                     score : scores, source : {{provider}}], MaxMergeTerms) :
        \A i, j \in 1..Len(r) : i # j => r[i].term.base # r[j].term.base}

\* the variables a step of the merge leaves alone
MergeOnly ==
    UNCHANGED <<fetchVars, selVars, weightVars, scoreVars, bucketVars, dedupVars,
                simVars, runVars, extraVars>>

\* nlp.py:189-230
MergeKeywordResults ==
    /\ merge_pc = "call"
    /\ merged_keywords' = MergeExact(yake_results, keybert_results)
    /\ final_keywords' =
           ByScore(DedupMerged(MergeExact(yake_results, keybert_results),
                               merge_similarity))
    /\ merge_pc' = "done"
    /\ UNCHANGED <<yake_results, keybert_results, merge_similarity>>
    /\ MergeOnly

\* nlp.py:109-187: YAKE keeps the spelling of the text, KeyBERT lower-cases
MergeInit ==
    /\ merge_pc = "call"
    /\ yake_results \in ProviderResults("yake", BOOLEAN, {60, 80})
    /\ keybert_results \in ProviderResults("keybert", {FALSE}, {60, 80})
    /\ merge_similarity \in {[p \in TermPairs(MaxMergeTerms) |-> x] : x \in {85, 95}}
    /\ merged_keywords = << >>
    /\ final_keywords = << >>

\* _merge_keyword_results is not running
MergeIdle ==
    /\ merge_pc = "idle"
    /\ yake_results = << >>
    /\ keybert_results = << >>
    /\ merge_similarity = << >>
    /\ merged_keywords = << >>
    /\ final_keywords = << >>

MergeNext == MergeKeywordResults

(***************************************************************************)
(* KeywordScorer._calculate_similarity_score                               *)
(*                                                                         *)
(* A string is the sequence of its characters.  A domain is the sequence   *)
(* of its labels, "www.ab.com" is <<"www", "ab", "com">> with each label a  *)
(* string.  Scores are in hundredths.                                      *)
(***************************************************************************)

MaxKeywordLen == 3     \* longest keyword string
MaxBrandLen == 3       \* longest brand name string

\* str.lower()
LowerChar(c) == IF c = "A" THEN "a" ELSE IF c = "B" THEN "b" ELSE c
Lower(str) == [i \in 1..Len(str) |-> LowerChar(str[i])]

\* a in b, for strings
Contains(b, a) ==
    \E i \in 0..(Len(b) - Len(a)) : SubSeq(b, i + 1, i + Len(a)) = a

\* str.split(): the maximal runs of characters other than blanks
Words(str) ==
    {SubSeq(str, i, j) : i \in 1..Len(str), j \in 1..Len(str)} \cap
    {w \in SeqsUpTo({"a", "b", "A", "B"}, Len(str)) :
        /\ w # << >>
        /\ \E i \in 1..(Len(str) - Len(w) + 1) :
              /\ SubSeq(str, i, i + Len(w) - 1) = w
              /\ (i = 1 \/ str[i - 1] = " ")
              /\ (i + Len(w) - 1 = Len(str) \/ str[i + Len(w)] = " ")}

www == <<"w", "w", "w">>

\* scorer.py:253  brand_domain.replace('www.', '').split('.')[0]
DomainName(domain) ==
    LET kept == SelectSeq([i \in 1..Len(domain) |->
                              [last |-> i = Len(domain), label |-> domain[i]]],
                          LAMBDA x : ~(x.label = www /\ ~x.last))
    IN  IF kept = << >> THEN << >> ELSE kept[1].label

\* scorer.py:237-249
BrandSimilarity(keyword, name) ==
    LET keyword_lower == Lower(keyword)
        brand_lower == Lower(name)
    IN  IF name = << >> THEN 0
        ELSE IF keyword_lower = brand_lower THEN 100
        ELSE IF Contains(brand_lower, keyword_lower)
                \/ Contains(keyword_lower, brand_lower) THEN 70
        ELSE IF \E word \in Words(brand_lower) : Contains(keyword_lower, word)
             THEN 50
        ELSE 0

\* scorer.py:251-260
DomainSimilarity(keyword, domain) ==
    LET keyword_lower == Lower(keyword)
        domain_lower == Lower(DomainName(domain))
    IN  IF domain = << >> THEN 0
        ELSE IF keyword_lower = domain_lower THEN 80
        ELSE IF Contains(domain_lower, keyword_lower)
                \/ Contains(keyword_lower, domain_lower) THEN 60
        ELSE 0

\* scorer.py:225-269
calculate_similarity_score(keyword, info) ==
    IF info.name = << >> /\ info.domain = << >> THEN 0
    ELSE Max(BrandSimilarity(keyword, info.name),
             DomainSimilarity(keyword, info.domain))

Keywords == SeqsUpTo({"a", "b", "A", " "}, MaxKeywordLen)

BrandNames == SeqsUpTo({"a", "b", " "}, MaxBrandLen)

BrandDomains == {<< >>, <<<<"a", "b">>, <<"c", "o", "m">>>>,
                 <<www, <<"a", "b">>, <<"c", "o", "m">>>>}

\* the variables a step of the brand similarity leaves alone
SimOnly ==
    UNCHANGED <<fetchVars, selVars, weightVars, scoreVars, bucketVars, dedupVars,
                mergeVars, runVars, extraVars>>

\* scorer.py:225-269
CalculateSimilarityScore ==
    /\ sim_pc = "call"
    /\ similarity_score' = calculate_similarity_score(keyword_arg, brand_info)
    /\ sim_pc' = "done"
    /\ UNCHANGED <<keyword_arg, brand_info>>
    /\ SimOnly

SimInit ==
    /\ sim_pc = "call"
    /\ keyword_arg \in Keywords
    /\ brand_info \in [name : BrandNames, domain : BrandDomains]
    /\ similarity_score = 0

\* _calculate_similarity_score is not running
SimIdle ==
    /\ sim_pc = "idle"
    /\ keyword_arg = << >>
    /\ brand_info = [name |-> << >>, domain |-> << >>]
    /\ similarity_score = 0

SimNext == CalculateSimilarityScore

\* the keyword pipeline is not running
PipeIdle == ScoreIdle /\ BucketIdle /\ DedupIdle /\ MergeIdle /\ SimIdle


(***************************************************************************)
(* The domain aggregator (scorer.py:427-473, main.py:404-451)              *)
(***************************************************************************)

MaxAggPages == 2        \* page results handed to the aggregator

top_n == 20             \* main.py:424, 427, 430

\* averages are kept in twelfths of a hundredth, exact for up to four scores
AvgScale == 12

\* the keywords of one bucket over all page results, page after page
RECURSIVE BucketKeywords(_, _)
BucketKeywords(all_url_results, bucket_name) ==
    IF all_url_results = << >> THEN << >>
    ELSE Head(all_url_results).keywords[bucket_name]
            \o BucketKeywords(Tail(all_url_results), bucket_name)

\* scorer.py:441-454, the keys of keyword_scores in the order a dict keeps
\* them, that of their first insertion
KeywordOrder(kws) ==
    LET firsts == SelectSeq([i \in 1..Len(kws) |-> i],
                      LAMBDA i : \A j \in 1..(i - 1) : kws[j].term # kws[i].term)
    IN  [p \in 1..Len(firsts) |-> kws[firsts[p]].term]

RECURSIVE SumOfScores(_)
SumOfScores(kws) ==
    IF kws = << >> THEN 0 ELSE Head(kws).score + SumOfScores(Tail(kws))

\* scorer.py:459, sum(scores) / len(scores)
avg_score(kws, term) ==
    LET scores == SelectSeq(kws, LAMBDA k : k.term = term)
    IN  (SumOfScores(scores) * AvgScale) \div Len(scores)

\* scorer.py:427-473
get_top_keywords_by_bucket(all_url_results, bucket_name, n) ==
    LET kws == BucketKeywords(all_url_results, bucket_name)
        order == KeywordOrder(kws)
        top_keywords == [p \in 1..Len(order) |->
                            [term |-> order[p], score |-> avg_score(kws, order[p])]]
    IN  Take(ByScore(top_keywords), n)

\* main.py:410-414
PorTipo(valid) ==
    [t \in PageTypes |-> Cardinality({i \in 1..Len(valid) : valid[i].tipo = t})]

\* main.py:404-438
create_domain_summary(valid) ==
    [total_urls |-> Len(valid),
     por_tipo |-> PorTipo(valid),
     top_keywords_cliente |-> get_top_keywords_by_bucket(valid, "cliente", top_n),
     top_keywords_producto |->
        get_top_keywords_by_bucket(valid, "producto_o_post", top_n),
     top_keywords_generales |->
        get_top_keywords_by_bucket(valid, "generales_seo", top_n)]

\* the variables a call of the aggregator leaves alone
AggOnly == UNCHANGED <<fetchVars, selVars, weightVars, pipeVars, domVars, smapVars,
                       extraVars>>

AggTerms == {"a", "b"}

AggScores == {50, 80}

\* the keyword lists of a bucket of a page: distinct terms, as
\* bucketize_keywords is given them
AggKeywordLists ==
    {l \in SeqsUpTo([term : AggTerms, score : AggScores], Cardinality(AggTerms)) :
        \A i, j \in 1..Len(l) : i # j => l[i].term # l[j].term}

\* page results whose keywords are in one bucket
PageResults(bucket_name) ==
    {[type |-> "URLAnalysisResponse", url |-> 0, tipo |-> t,
      keywords |-> [b \in BucketNames |-> IF b = bucket_name THEN l ELSE << >>]] :
        t \in {"ecommerce", "blog"}, l \in AggKeywordLists}

\* the orders a list of n page results can be handed over in
Orders(n) == {f \in [1..n -> 1..n] : \A i, j \in 1..n : i # j => f[i] # f[j]}

\* main.py:311, the summary of the page results, and that of the same page
\* results in another order
CreateDomainSummary ==
    /\ agg_pc = "call"
    /\ \E f \in Orders(Len(url_results)) :
          LET permuted == [i \in 1..Len(url_results) |-> url_results[f[i]]]
          IN  /\ permuted_results' = permuted
              /\ permuted_summary' = create_domain_summary(permuted)
    /\ domain_summary' = create_domain_summary(url_results)
    /\ agg_pc' = "done"
    /\ UNCHANGED url_results
    /\ AggOnly

AggInit ==
    /\ agg_pc = "call"
    /\ \E b \in BucketNames, n \in 1..MaxAggPages :
          url_results \in [1..n -> PageResults(b)]
    /\ permuted_results = << >>
    /\ domain_summary = create_domain_summary(<< >>)
    /\ permuted_summary = create_domain_summary(<< >>)

\* the aggregator is not running
AggIdle ==
    /\ agg_pc = "idle"
    /\ url_results = << >>
    /\ permuted_results = << >>
    /\ domain_summary = create_domain_summary(<< >>)
    /\ permuted_summary = create_domain_summary(<< >>)

AggNext == CreateDomainSummary

(***************************************************************************)
(* analyze_domain: the outcome of a domain run (main.py:190-330)           *)
(***************************************************************************)

MaxPages == 3           \* pages of the site that can be selected

Pages == 1..MaxPages

\* the variables a step of the domain run leaves alone
DomOnly == UNCHANGED <<fetchVars, selVars, weightVars, pipeVars, aggVars, smapVars,
                       extraVars>>

\* lists of distinct page URLs, the empty list included
UrlLists ==
    {l \in SeqsUpTo(Pages, MaxPages) :
        \A i, j \in 1..Len(l) : i # j => l[i] # l[j]}

\* classifier.classify_page_type of a page (main.py:239)
TipoOf(url) ==
    CASE url % 3 = 1 -> "ecommerce"
      [] url % 3 = 2 -> "blog"
      [] OTHER -> "mixto"

\* the ways the chain of a page ends short of a result (main.py:231-290)
ChainFailures ==
    {"fetch_none", "parse_raises", "extract_raises", "score_raises"}

\* the ways the chain of a page ends
ChainOutcomes == {"ok"} \cup ChainFailures

\* no keyword in any bucket
NoKeywords == [b \in BucketNames |-> << >>]

\* the value process_url returns: a URLAnalysisResponse, or None when the
\* fetch gave nothing (main.py:232-233) or a stage raised (main.py:288-290);
\* the keywords of the page play no part in the outcome of the run and are
\* left empty
process_url(url, outcome) ==
    IF outcome = "ok"
    THEN [type |-> "URLAnalysisResponse", url |-> url, tipo |-> TipoOf(url),
          keywords |-> NoKeywords]
    ELSE [type |-> "NoneType", url |-> 0, tipo |-> "none",
          keywords |-> NoKeywords]

\* The filter of the gathered results without the isinstance test
IsValidResult_any(res) == TRUE

\* isinstance(result, URLAnalysisResponse) (main.py:299)
IsValidResult(res) == res.type = "URLAnalysisResponse"

\* Model construction that accepts a missing required field
Validates_unchecked(required, given) == TRUE

\* pydantic's check of a model's arguments: every field declared with
\* Field(...) has to be given (schemas.py:106-118)
Validates(required, given) == required \subseteq given

\* schemas.py:106-111, the fields of DomainSummary without a default
DomainSummaryRequired == {"total_urls", "por_tipo"}

\* schemas.py:114-118
DomainAnalysisResponseRequired == {"domain", "resumen", "urls"}

\* an HTTPException leaving the handler
HTTPException(status_code, detail) ==
    [kind |-> "HTTPException", status_code |-> status_code, detail |-> detail,
     resumen |-> create_domain_summary(<< >>), urls |-> << >>]

\* a DomainAnalysisResponse returned by the handler
Returned(resumen, urls) ==
    [kind |-> "DomainAnalysisResponse", status_code |-> 200, detail |-> "",
     resumen |-> resumen, urls |-> urls]

\* main.py:325-330, an exception other than HTTPException; the detail
\* carries str(e)
InternalError(e) == HTTPException(500, e)

\* main.py:209-215: DomainSummary(total_urls=0) is built first, then
\* DomainAnalysisResponse(domain=..., summary=..., urls=[])
NoUrlsResponse ==
    IF ~Validates(DomainSummaryRequired, {"total_urls"})
    THEN InternalError("ValidationError: DomainSummary")
    ELSE IF ~Validates(DomainAnalysisResponseRequired,
                       {"domain", "summary", "urls"})
    THEN InternalError("ValidationError: DomainAnalysisResponse")
    ELSE Returned(create_domain_summary(<< >>), << >>)

\* main.py:296-322
GatheredResponse(gathered) ==
    LET valid_results == SelectSeq(gathered, IsValidResult) IN
    IF valid_results = << >>
    THEN HTTPException(500, "No se pudieron procesar URLs validas")
    ELSE IF ~Validates(DomainAnalysisResponseRequired,
                       {"domain", "resumen", "urls"})
    THEN InternalError("ValidationError: DomainAnalysisResponse")
    ELSE Returned(create_domain_summary(valid_results), valid_results)

\* A semaphore whose permits are never given back
Running_neverFreed == {p \in Pages : chain[p] # "pending"}

\* the tasks inside `async with semaphore` (main.py:228): a task leaves it
\* when process_url returns, with a result or with None
Running == {p \in Pages : chain[p] = "running"}

\* main.py:207, get_intelligent_urls returns a list, possibly empty; it
\* catches its own exceptions and returns the empty list (sitemap.py:739-741)
GetIntelligentUrls ==
    /\ dom_pc = "discover"
    /\ \E l \in UrlLists : urls_to_process' = l
    /\ dom_pc' = "process"
    /\ UNCHANGED <<chain, results, response>>
    /\ DomOnly

\* main.py:209-215
RespondNoUrls ==
    /\ dom_pc = "process"
    /\ urls_to_process = << >>
    /\ response' = NoUrlsResponse
    /\ dom_pc' = "done"
    /\ UNCHANGED <<urls_to_process, chain, results>>
    /\ DomOnly

\* main.py:228, a task of process_url enters the semaphore
EnterSemaphore(p) ==
    /\ dom_pc = "process"
    /\ InSeq(p, urls_to_process)
    /\ chain[p] = "pending"
    /\ Cardinality(Running) < MaxConcurrent
    /\ chain' = [chain EXCEPT ![p] = "running"]
    /\ UNCHANGED <<dom_pc, urls_to_process, results, response>>
    /\ DomOnly

\* main.py:229-290, the chain of a page ends and the task leaves the
\* semaphore
ProcessUrl(p) ==
    /\ dom_pc = "process"
    /\ chain[p] = "running"
    /\ \E outcome \in ChainOutcomes : chain' = [chain EXCEPT ![p] = outcome]
    /\ UNCHANGED <<dom_pc, urls_to_process, results, response>>
    /\ DomOnly

\* main.py:293-322, gather returns once every task has ended
GatherAndRespond ==
    /\ dom_pc = "process"
    /\ urls_to_process # << >>
    /\ \A i \in 1..Len(urls_to_process) : chain[urls_to_process[i]] \in ChainOutcomes
    /\ LET gathered == [i \in 1..Len(urls_to_process) |->
                process_url(urls_to_process[i], chain[urls_to_process[i]])]
       IN  /\ results' = gathered
           /\ response' = GatheredResponse(gathered)
    /\ dom_pc' = "done"
    /\ UNCHANGED <<urls_to_process, chain>>
    /\ DomOnly

DomInit ==
    /\ dom_pc = "discover"
    /\ urls_to_process = << >>
    /\ chain = [p \in Pages |-> "pending"]
    /\ results = << >>
    /\ response = [kind |-> "none", status_code |-> 0, detail |-> "",
                   resumen |-> create_domain_summary(<< >>), urls |-> << >>]

\* no domain request is being served
DomIdle ==
    /\ dom_pc = "idle"
    /\ urls_to_process = << >>
    /\ chain = [p \in Pages |-> "pending"]
    /\ results = << >>
    /\ response = [kind |-> "none", status_code |-> 0, detail |-> "",
                   resumen |-> create_domain_summary(<< >>), urls |-> << >>]

\* main.py:224-226, the URLs to process are known
DomRunInit ==
    /\ dom_pc = "process"
    /\ \E n \in 0..MaxPages : urls_to_process = [i \in 1..n |-> i]
    /\ chain = [p \in Pages |-> "pending"]
    /\ results = << >>
    /\ response = [kind |-> "none", status_code |-> 0, detail |-> "",
                   resumen |-> create_domain_summary(<< >>), urls |-> << >>]

\* main.py:209-322, the run from there on
DomRunNext ==
    \/ RespondNoUrls
    \/ \E p \in Pages : EnterSemaphore(p)
    \/ \E p \in Pages : ProcessUrl(p)
    \/ GatherAndRespond

DomNext ==
    \/ GetIntelligentUrls
    \/ RespondNoUrls
    \/ \E p \in Pages : EnterSemaphore(p)
    \/ \E p \in Pages : ProcessUrl(p)
    \/ GatherAndRespond


(***************************************************************************)
(* The expansion of a sitemap index (sitemap.py:94-166, 443-488)           *)
(*                                                                         *)
(* A call of parse_sitemap or parse_sitemap_with_dates is a frame of       *)
(* call_stack: the URL it was given, whether it is about to fetch or is    *)
(* inside the loop of an index, the position in that loop, the list it has *)
(* collected and its budget of URLs.                                       *)
(*                                                                         *)
(* call_stack holds the innermost MaxDepth calls.  A nest of more than     *)
(* NumDocs + 1 calls has one document open in two calls below the          *)
(* outermost; nothing but the document decides what a call does once it is *)
(* that deep unguarded, so the inner of the two repeats the outer and the  *)
(* nest never unwinds to the calls that were left out.                     *)
(***************************************************************************)

NumDocs == 2            \* sitemap documents of the site

Docs == 1..NumDocs

\* the calls call_stack holds
MaxDepth == NumDocs + 1

max_urls_default == 1000    \* sitemap.py:94

\* the variables a step of the expansion leaves alone
SmapOnly == UNCHANGED <<fetchVars, selVars, weightVars, pipeVars, domVars, aggVars,
                       extraVars>>

Variants == {"parse_sitemap", "parse_sitemap_with_dates"}

\* the <sitemap><loc> lists of an index: any documents of the site, the
\* index itself included
ChildLists ==
    {l \in SeqsUpTo(Docs, NumDocs) :
        l # << >> /\ \A i, j \in 1..Len(l) : i # j => l[i] # l[j]}

\* what a sitemap URL serves: nothing that parses, a urlset or an index
DocKinds ==
    {[kind |-> "unavailable", children |-> << >>],
     [kind |-> "urlset", children |-> << >>]}
    \cup {[kind |-> "sitemapindex", children |-> l] : l \in ChildLists}

\* a call that is about to fetch its sitemap
Call(url, budget) ==
    [url |-> url, phase |-> "fetch", next |-> 0, urls |-> << >>,
     budget |-> budget]

Top == call_stack[Len(call_stack)]

\* _parse_sitemap_index consults processed_sitemaps (sitemap.py:150-154),
\* _parse_sitemap_index_with_dates does not (sitemap.py:471-486)
Guarded(v) == v = "parse_sitemap"

\* sitemap.py:143-144, the budget check at the head of the loop; the loop of
\* _parse_sitemap_index_with_dates has none
BudgetSpent(frame) ==
    variant = "parse_sitemap" /\ Len(frame.urls) >= frame.budget

\* the loop over the <sitemap> elements of the index is over
LoopOver(frame) ==
    \/ frame.next > Len(sitemap_docs[frame.url].children)
    \/ BudgetSpent(frame)

\* A return that replaces the list of the caller instead of extending it
ReturnValue_assign(value) ==
    IF Len(call_stack) = 1
    THEN /\ call_stack' = << >>
         /\ smap_result' = value
         /\ smap_pc' = "done"
    ELSE /\ call_stack' =
            [SubSeq(call_stack, 1, Len(call_stack) - 1)
                EXCEPT ![Len(call_stack) - 1].urls = value]
         /\ UNCHANGED <<smap_result, smap_pc>>

\* the innermost call returns value to its caller, which extends its list
\* (sitemap.py:158-159, 484-485), or to the caller of the outermost call
ReturnValue(value) ==
    IF Len(call_stack) = 1
    THEN /\ call_stack' = << >>
         /\ smap_result' = value
         /\ smap_pc' = "done"
    ELSE /\ call_stack' =
            [SubSeq(call_stack, 1, Len(call_stack) - 1)
                EXCEPT ![Len(call_stack) - 1].urls = @ \o value]
         /\ UNCHANGED <<smap_result, smap_pc>>

\* sitemap.py:106-127, 455-466: the fetch and the parse of the document; a
\* document that cannot be fetched makes the call return [] (sitemap.py:
\* 108-110, 457-459), and so does one that is not XML (sitemap.py:113-117,
\* 468-470)
FetchSitemap ==
    /\ smap_pc = "run"
    /\ Top.phase = "fetch"
    /\ LET doc == sitemap_docs[Top.url] IN
       CASE doc.kind = "unavailable" -> ReturnValue(<< >>)
         [] doc.kind = "malformed" -> ReturnValue(<< >>)
         [] doc.kind = "urlset" -> ReturnValue(Take(<<Top.url>>, Top.budget))
         [] doc.kind = "sitemapindex" ->
              /\ call_stack' = [call_stack EXCEPT ![Len(call_stack)].phase = "loop",
                                                  ![Len(call_stack)].next = 1]
              /\ UNCHANGED <<smap_result, smap_pc>>
    /\ UNCHANGED <<variant, sitemap_docs, processed_sitemaps, nest_cut, smap_call>>
    /\ SmapOnly

\* sitemap.py:151-152, a sitemap processed before is passed over
SkipProcessed ==
    /\ smap_pc = "run"
    /\ Top.phase = "loop"
    /\ ~LoopOver(Top)
    /\ Guarded(variant)
    /\ sitemap_docs[Top.url].children[Top.next] \in processed_sitemaps
    /\ call_stack' = [call_stack EXCEPT ![Len(call_stack)].next = @ + 1]
    /\ UNCHANGED <<smap_pc, variant, sitemap_docs, processed_sitemaps, nest_cut,
                   smap_result, smap_call>>
    /\ SmapOnly

\* sitemap.py:154-158, 484: the recursive call for a sitemap of the index
ExpandChild ==
    /\ smap_pc = "run"
    /\ Top.phase = "loop"
    /\ ~LoopOver(Top)
    /\ LET child == sitemap_docs[Top.url].children[Top.next]
           nest == Append([call_stack EXCEPT ![Len(call_stack)].next = @ + 1],
                          Call(child, IF variant = "parse_sitemap"
                                      THEN Top.budget - Len(Top.urls)
                                      ELSE max_urls_default))
       IN
       /\ Guarded(variant) => child \notin processed_sitemaps
       /\ processed_sitemaps' =
            IF Guarded(variant) THEN processed_sitemaps \cup {child}
            ELSE processed_sitemaps
       /\ call_stack' = IF Len(nest) > MaxDepth THEN Tail(nest) ELSE nest
       /\ nest_cut' = (nest_cut \/ Len(nest) > MaxDepth)
    /\ UNCHANGED <<smap_pc, variant, sitemap_docs, smap_result, smap_call>>
    /\ SmapOnly

\* sitemap.py:161-162, 487: the loop of an index is over and the call returns
IndexReturns ==
    /\ smap_pc = "run"
    /\ Top.phase = "loop"
    /\ LoopOver(Top)
    /\ ReturnValue(Top.urls)
    /\ UNCHANGED <<variant, sitemap_docs, processed_sitemaps, nest_cut, smap_call>>
    /\ SmapOnly

SmapInit ==
    /\ smap_pc = "run"
    /\ variant \in Variants
    /\ sitemap_docs \in [Docs -> DocKinds]
    /\ \E budget \in {1, max_urls_default} :
          /\ variant = "parse_sitemap_with_dates" => budget = max_urls_default
          /\ call_stack = <<Call(1, budget)>>
          /\ smap_call = [max_urls |-> budget, number |-> 1, first |-> << >>]
    /\ processed_sitemaps = {}
    /\ nest_cut = FALSE
    /\ smap_result = << >>

NumSiblings == 3        \* sitemaps listed by the index of the site

\* the sitemaps next to the index, which is document 1
Siblings == 2..(NumSiblings + 1)

\* what a sitemap listed by the index serves: nothing (the fetch fails),
\* something that is not XML, or a urlset
SiblingKinds ==
    {[kind |-> k, children |-> << >>] : k \in {"unavailable", "malformed", "urlset"}}

\* the <sitemap><loc> lists of the index of the site
SiblingLists ==
    {l \in SeqsUpTo(Siblings, NumSiblings) :
        l # << >> /\ \A i, j \in 1..Len(l) : i # j => l[i] # l[j]}

\* a call of either function on an index that lists sitemaps of the site
SiblingsInit ==
    /\ smap_pc = "run"
    /\ variant \in Variants
    /\ \E l \in SiblingLists, leaves \in [Siblings -> SiblingKinds] :
          sitemap_docs = [u \in {1} \cup Siblings |->
                            IF u = 1 THEN [kind |-> "sitemapindex", children |-> l]
                            ELSE leaves[u]]
    /\ \E budget \in {1, max_urls_default} :
          /\ variant = "parse_sitemap_with_dates" => budget = max_urls_default
          /\ call_stack = <<Call(1, budget)>>
          /\ smap_call = [max_urls |-> budget, number |-> 1, first |-> << >>]
    /\ processed_sitemaps = {}
    /\ nest_cut = FALSE
    /\ smap_result = << >>

\* no sitemap is being parsed
SmapIdle ==
    /\ smap_pc = "idle"
    /\ variant = "none"
    /\ sitemap_docs = [u \in Docs |-> [kind |-> "unavailable", children |-> << >>]]
    /\ call_stack = << >>
    /\ processed_sitemaps = {}
    /\ nest_cut = FALSE
    /\ smap_result = << >>
    /\ smap_call = [max_urls |-> 0, number |-> 0, first |-> << >>]

SmapNext ==
    \/ FetchSitemap
    \/ SkipProcessed
    \/ ExpandChild
    \/ IndexReturns

\* the same function is called again on the same SitemapService for the same
\* sitemap URL with the same max_urls; processed_sitemaps is made in __init__
\* (sitemap.py:25) and is never emptied, so the call finds what the first
\* call left
ParseSitemapAgain ==
    /\ smap_pc = "done"
    /\ smap_call.number = 1
    /\ smap_call' = [smap_call EXCEPT !.number = 2, !.first = smap_result]
    /\ call_stack' = <<Call(1, smap_call.max_urls)>>
    /\ smap_result' = << >>
    /\ smap_pc' = "run"
    /\ UNCHANGED <<variant, sitemap_docs, processed_sitemaps, nest_cut>>
    /\ SmapOnly

SmapTwiceNext ==
    \/ SmapNext
    \/ ParseSitemapAgain

\* the steps of the expansion of an index that lists each sitemap once:
\* no sitemap is met a second time
SiblingsNext ==
    \/ FetchSitemap
    \/ ExpandChild
    \/ IndexReturns


(***************************************************************************)
(* discover_sitemap (sitemap.py:27-92)                                     *)
(*                                                                         *)
(* A line of robots.txt is the text before its first colon and the text    *)
(* after it, both stripped.                                                *)
(***************************************************************************)

MaxRobotsLines == 2     \* lines of robots.txt

\* sitemap.py:40-46
sitemap_candidates ==
    <<"/sitemap.xml", "/sitemap_index.xml", "/wp-sitemap.xml", "/sitemap.xml.gz",
      "/sitemap_index.xml.gz">>

robots_url == "/robots.txt"    \* sitemap.py:73

\* the variables a step of the discovery leaves alone
DiscOnly ==
    UNCHANGED <<fetchVars, selVars, weightVars, pipeVars, runVars, clsVars, scoredVars>>

\* str.lower of the text before the colon
LowerKey(key) ==
    CASE key \in {"Sitemap", "sitemap", "SITEMAP"} -> "sitemap"
      [] key = "Disallow" -> "disallow"
      [] OTHER -> key

\* sitemap.py:81, line.lower().startswith('sitemap:')
IsSitemapLine(line) == LowerKey(line.key) = "sitemap"

\* A scan of robots.txt that keeps the last directive
RECURSIVE ScanRobots_last(_)
ScanRobots_last(lines) ==
    IF lines = << >> THEN ""
    ELSE LET rest == ScanRobots_last(Tail(lines)) IN
         IF rest # "" THEN rest
         ELSE IF IsSitemapLine(Head(lines)) THEN Head(lines).value ELSE ""

\* sitemap.py:79-85, the first line with a directive and a URL after it; ""
\* when there is none
RECURSIVE ScanRobots(_)
ScanRobots(lines) ==
    IF lines = << >> THEN ""
    ELSE IF IsSitemapLine(Head(lines)) /\ Head(lines).value # ""
    THEN Head(lines).value
    ELSE ScanRobots(Tail(lines))

\* the lines robots.txt can hold
RobotsLines ==
    {[key |-> "Disallow", value |-> "/private"],
     [key |-> "Sitemap", value |-> ""],
     [key |-> "Sitemap", value |-> "https://site/a.xml"],
     [key |-> "sitemap", value |-> "https://site/b.xml"]}

\* sitemap.py:48-52, the fetch of a candidate answered with 200
CandidateFound ==
    /\ disc_pc = "candidates"
    /\ next_candidate <= Len(sitemap_candidates)
    /\ candidate_ok[next_candidate]
    /\ probed' = Append(probed, sitemap_candidates[next_candidate])
    /\ disc_result' = sitemap_candidates[next_candidate]
    /\ disc_pc' = "done"
    /\ UNCHANGED <<candidate_ok, robots, next_candidate>>
    /\ DiscOnly

\* sitemap.py:48-55, the fetch of a candidate that fails; the loop goes on
CandidateFails ==
    /\ disc_pc = "candidates"
    /\ next_candidate <= Len(sitemap_candidates)
    /\ ~candidate_ok[next_candidate]
    /\ probed' = Append(probed, sitemap_candidates[next_candidate])
    /\ next_candidate' = next_candidate + 1
    /\ disc_pc' = IF next_candidate = Len(sitemap_candidates)
                  THEN "robots" ELSE "candidates"
    /\ UNCHANGED <<candidate_ok, robots, disc_result>>
    /\ DiscOnly

\* sitemap.py:57-63 and 70-92, robots.txt is fetched and scanned
FindSitemapInRobots ==
    /\ disc_pc = "robots"
    /\ probed' = Append(probed, robots_url)
    /\ disc_result' = IF robots.ok THEN ScanRobots(robots.lines) ELSE ""
    /\ disc_pc' = "done"
    /\ UNCHANGED <<candidate_ok, robots, next_candidate>>
    /\ DiscOnly

DiscInit ==
    /\ disc_pc = "candidates"
    /\ candidate_ok \in [1..Len(sitemap_candidates) -> BOOLEAN]
    /\ robots \in [ok : BOOLEAN, lines : SeqsUpTo(RobotsLines, MaxRobotsLines)]
    /\ ~robots.ok => robots.lines = << >>
    /\ next_candidate = 1
    /\ probed = << >>
    /\ disc_result = ""

\* discover_sitemap is not running
DiscIdle ==
    /\ disc_pc = "idle"
    /\ candidate_ok = [i \in 1..Len(sitemap_candidates) |-> FALSE]
    /\ robots = [ok |-> FALSE, lines |-> << >>]
    /\ next_candidate = 1
    /\ probed = << >>
    /\ disc_result = ""

DiscNext ==
    \/ CandidateFound
    \/ CandidateFails
    \/ FindSitemapInRobots


(***************************************************************************)
(* KeywordScorer._classify_keyword_bucket (scorer.py:326-389)              *)
(*                                                                         *)
(* A string is a sequence of units: a unit is a letter or a whole word of  *)
(* one of the keyword lists.  An optional string is None or a string.      *)
(* Frequencies are in hundredths.                                          *)
(***************************************************************************)

MaxClassifyLen == 3     \* longest keyword handed to the classifier

NoStr == [given |-> FALSE, text |-> << >>]
Str(text) == [given |-> TRUE, text |-> text]

\* scorer.py:345
high_frequency == 10

\* scorer.py:351-354
product_keywords ==
    {"precio", "comprar", "oferta", "descuento", "envío", "entrega", "talla",
     "color", "marca", "modelo", "especificaciones"}

\* scorer.py:367-370
blog_keywords ==
    {"tutorial", "guía", "cómo", "paso", "método", "técnica", "ejemplo", "caso",
     "experiencia", "opinión", "review"}

\* any(pk in keyword_lower for pk in words)
HasWord(keyword_lower, words) ==
    \E i \in 1..Len(keyword_lower) : keyword_lower[i] \in words

\* domain_keywords and keyword in domain_keywords
InDomainKeywords(keyword, freqs) ==
    freqs.given /\ keyword \in DOMAIN freqs.map

\* scorer.py:335-382, the rules after the three strings are lowered
ClassifyRules(keyword, type, name, domain, freqs) ==
    LET keyword_lower == Lower(keyword)
        brand_name == Lower(name)
        brand_domain == Lower(domain)
    IN  IF /\ brand_name # << >>
           /\ \/ keyword_lower = brand_name
              \/ Contains(brand_name, keyword_lower)
              \/ Contains(keyword_lower, brand_name)
        THEN "cliente"
        ELSE IF brand_domain # << >> /\ Contains(brand_domain, keyword_lower)
        THEN "cliente"
        ELSE IF InDomainKeywords(keyword, freqs)
                /\ freqs.map[keyword] > high_frequency
        THEN "cliente"
        ELSE IF type = "ecommerce"
        THEN IF HasWord(keyword_lower, product_keywords) THEN "producto_o_post"
             ELSE IF InDomainKeywords(keyword, freqs) THEN "generales_seo"
             ELSE "producto_o_post"
        ELSE IF type = "blog"
        THEN IF HasWord(keyword_lower, blog_keywords) THEN "producto_o_post"
             ELSE IF InDomainKeywords(keyword, freqs) THEN "generales_seo"
             ELSE "producto_o_post"
        ELSE IF InDomainKeywords(keyword, freqs) THEN "generales_seo"
             ELSE "producto_o_post"

\* scorer.py:331-332: .lower() of a None raises AttributeError
LowerRaises(info) == ~info.name.given \/ ~info.domain.given

\* A classifier without the except clause
classify_keyword_bucket_str_uncaught(keyword, type, info, freqs) ==
    IF LowerRaises(info)
    THEN [bucket |-> "AttributeError", raised |-> TRUE]
    ELSE [bucket |-> ClassifyRules(keyword, type, info.name.text,
                                   info.domain.text, freqs),
          raised |-> FALSE]

\* scorer.py:326-389 on strings
classify_keyword_bucket_str(keyword, type, info, freqs) ==
    IF LowerRaises(info)
    THEN [bucket |-> "generales_seo", raised |-> TRUE]
    ELSE [bucket |-> ClassifyRules(keyword, type, info.name.text,
                                   info.domain.text, freqs),
          raised |-> FALSE]

\* the variables a step of the classifier leaves alone
ClsOnly ==
    UNCHANGED <<fetchVars, selVars, weightVars, pipeVars, runVars, discVars, scoredVars>>

ClassifyKeywords == SeqsUpTo({"a", "A", ".com", "precio", "review"}, MaxClassifyLen)

\* classifier.py:385-433: the name is None when no brand is found
ClassifyBrandInfos ==
    [name : {NoStr, Str(<< >>), Str(<<"a">>), Str(<<"A", "a">>)},
     domain : {NoStr, Str(<< >>), Str(<<"a", ".com">>)}]

\* no map, an empty map, or a map that holds the keyword on or above the
\* threshold
FrequencyMaps(keyword) ==
    {[given |-> FALSE, map |-> << >>], [given |-> TRUE, map |-> << >>]}
    \cup {[given |-> TRUE, map |-> [k \in {keyword} |-> f]] :
             f \in {high_frequency, high_frequency + 1}}

\* scorer.py:326-389
ClassifyKeywordBucket ==
    /\ cls_pc = "call"
    /\ cls_result' = classify_keyword_bucket_str(cls_keyword, cls_page_type,
                                                 cls_brand_info, domain_keywords)
    /\ cls_pc' = "done"
    /\ UNCHANGED <<cls_keyword, cls_page_type, cls_brand_info, domain_keywords>>
    /\ ClsOnly

ClsInit ==
    /\ cls_pc = "call"
    /\ cls_keyword \in ClassifyKeywords
    /\ cls_page_type \in PageTypes
    /\ cls_brand_info \in ClassifyBrandInfos
    /\ domain_keywords \in FrequencyMaps(cls_keyword)
    /\ cls_result = [bucket |-> "", raised |-> FALSE]

\* _classify_keyword_bucket is not running
ClsIdle ==
    /\ cls_pc = "idle"
    /\ cls_keyword = << >>
    /\ cls_page_type = "mixto"
    /\ cls_brand_info = [name |-> NoStr, domain |-> NoStr]
    /\ domain_keywords = [given |-> FALSE, map |-> << >>]
    /\ cls_result = [bucket |-> "", raised |-> FALSE]

ClsNext == ClassifyKeywordBucket


(***************************************************************************)
(* The page tasks of one analyze_domain run and PUT /scoring-weights       *)
(* (main.py:228-274, 349-383, scorer.py:41-59)                             *)
(*                                                                         *)
(* A page task is suspended at its awaits (the fetch, the keyword          *)
(* extraction); the loop that scores its keywords has no await.  The       *)
(* handler of PUT /scoring-weights has no await either, and runs whenever  *)
(* the tasks are suspended.                                                *)
(***************************************************************************)

\* the variables a step of a page task leaves alone
ScoredOnly ==
    UNCHANGED <<fetchVars, selVars, weightVars, pipeVars, runVars, discVars, clsVars>>

\* main.py:232-253: the page is fetched and parsed; the task awaits
\* nlp_service.extract_keywords
FetchAndParse(p) ==
    /\ page_pc[p] = "queued"
    /\ page_pc' = [page_pc EXCEPT ![p] = "extracting"]
    /\ UNCHANGED weights_used
    /\ ScoredOnly

\* scorer.py:42-43: weights is None, so settings.scoring_weights is read
WeightsRead(current) == current

\* main.py:262-269: every keyword of the page is scored, one call of
\* calculate_keyword_score after the other
ScoreKeywords(p) ==
    /\ page_pc[p] = "extracting"
    /\ page_pc' = [page_pc EXCEPT ![p] = "scored"]
    /\ weights_used' =
           [q \in DOMAIN weights_used \cup {p} |->
               IF q = p THEN WeightsRead(scoring_weights) ELSE weights_used[q]]
    /\ ScoredOnly

\* the bodies of the requests sent during a run: no field, w1_frequency = 1,
\* and a field out of range
RunRequests ==
    {[f \in Fields |-> None],
     [f \in Fields |-> IF f = "w1_frequency" THEN Given(2) ELSE None],
     [f \in Fields |-> IF f = "w2_tfidf" THEN Given(3) ELSE None]}

ScoredInit ==
    /\ page_pc = [p \in Pages |-> "queued"]
    /\ weights_used = << >>

\* no run is scoring pages
ScoredIdle ==
    /\ page_pc = << >>
    /\ weights_used = << >>

ScoredNext ==
    \/ \E p \in Pages : FetchAndParse(p)
    \/ \E p \in Pages : ScoreKeywords(p)
    \/ \E req \in RunRequests : PutScoringWeights(req)

\* none of the operations modelled on their own is running
ExtraIdle == DiscIdle /\ ClsIdle /\ ScoredIdle

\* no domain-level operation is running
RunIdle == DomIdle /\ AggIdle /\ SmapIdle /\ ExtraIdle

(***************************************************************************)
(* Specifications                                                          *)
(***************************************************************************)

\* a domain analysis: the page tasks of analyze_domain
Init == FetchInit /\ SelIdle /\ WeightsInit /\ PipeIdle /\ RunIdle
Next == FetchNext
Spec == Init /\ [][Next]_vars

\* a run of get_intelligent_urls
InitSelect == FetchIdle /\ SelInit /\ WeightsInit /\ PipeIdle /\ RunIdle
SpecSelect == InitSelect /\ [][SelNext]_vars

\* requests to PUT /scoring-weights
InitWeights == FetchIdle /\ SelIdle /\ WeightsInit /\ PipeIdle /\ RunIdle
SpecWeights == InitWeights /\ [][WeightsNext]_vars

\* the rest of the program is not running
RestIdle == FetchIdle /\ SelIdle /\ WeightsInit /\ RunIdle

\* a call of calculate_keyword_score
InitScore ==
    RestIdle /\ ScoreInit /\ BucketIdle /\ DedupIdle /\ MergeIdle /\ SimIdle
SpecScore == InitScore /\ [][ScoreNext]_vars

\* a call of bucketize_keywords
InitBucket ==
    RestIdle /\ ScoreIdle /\ BucketInit /\ DedupIdle /\ MergeIdle /\ SimIdle
SpecBucket == InitBucket /\ [][BucketNext]_vars

\* _deduplicate_by_similarity on a list, then on its own output
InitDedup ==
    RestIdle /\ ScoreIdle /\ BucketIdle /\ DedupInit /\ MergeIdle /\ SimIdle
SpecDedup == InitDedup /\ [][DedupNext]_vars

\* a call of _merge_keyword_results
InitMerge ==
    RestIdle /\ ScoreIdle /\ BucketIdle /\ DedupIdle /\ MergeInit /\ SimIdle
SpecMerge == InitMerge /\ [][MergeNext]_vars

\* a call of _calculate_similarity_score
InitSim ==
    RestIdle /\ ScoreIdle /\ BucketIdle /\ DedupIdle /\ MergeIdle /\ SimInit
SpecSim == InitSim /\ [][SimNext]_vars

\* nothing below the domain level is running
BaseIdle == FetchIdle /\ SelIdle /\ WeightsInit /\ PipeIdle

\* a request to analyze_domain, from the discovery to the response
InitDomain == BaseIdle /\ DomInit /\ AggIdle /\ SmapIdle /\ ExtraIdle
SpecDomain == InitDomain /\ [][DomNext]_vars

\* the page tasks of a request whose URLs are known.  The event loop runs
\* a task that is ready, and the chain of a page ends because every GET
\* completes or times out (fetcher.py:80) and every later stage returns or
\* raises
InitRun == BaseIdle /\ DomRunInit /\ AggIdle /\ SmapIdle /\ ExtraIdle
SpecRun == InitRun /\ [][DomRunNext]_vars
SpecRunFair == SpecRun /\ WF_vars(DomRunNext)

\* a call of _create_domain_summary
InitAggregate == BaseIdle /\ DomIdle /\ AggInit /\ SmapIdle /\ ExtraIdle
SpecAggregate == InitAggregate /\ [][AggNext]_vars

\* a call of parse_sitemap or of parse_sitemap_with_dates on the sitemap of
\* a site
InitSitemap == BaseIdle /\ DomIdle /\ AggIdle /\ SmapInit /\ ExtraIdle
SpecSitemap == InitSitemap /\ [][SmapNext]_vars

\* the event loop resumes a call whenever its fetch has returned, and
\* fetch_url always returns, so a step that can be taken is taken
SpecSitemapFair == SpecSitemap /\ WF_vars(SmapNext)

\* a call of either function on an index whose sitemaps are urlsets or fail
InitSiblings == BaseIdle /\ DomIdle /\ AggIdle /\ SiblingsInit /\ ExtraIdle
SpecSiblings == InitSiblings /\ [][SiblingsNext]_vars

\* two calls on one SitemapService for the same sitemap URL
SpecSitemapTwice == InitSitemap /\ [][SmapTwiceNext]_vars

\* the category selection on the records of a sitemap
InitCategories == FetchIdle /\ CategoriesInit /\ WeightsInit /\ PipeIdle /\ RunIdle
SpecCategories == InitCategories /\ [][SelectIntelligentUrls]_vars

\* no page is being analysed and no sitemap resolved
QuietIdle == BaseIdle /\ DomIdle /\ AggIdle /\ SmapIdle

\* a call of discover_sitemap
InitDiscover == QuietIdle /\ DiscInit /\ ClsIdle /\ ScoredIdle
SpecDiscover == InitDiscover /\ [][DiscNext]_vars

\* a call of _classify_keyword_bucket
InitClassify == QuietIdle /\ DiscIdle /\ ClsInit /\ ScoredIdle
SpecClassify == InitClassify /\ [][ClsNext]_vars

\* the page tasks of a run, with requests to PUT /scoring-weights in between
InitScored == QuietIdle /\ DiscIdle /\ ClsIdle /\ ScoredInit
SpecScored == InitScored /\ [][ScoredNext]_vars

(***************************************************************************)
(* Claims about the fetch stage                                            *)
(***************************************************************************)

\* tasks inside `async with semaphore`
Holders == {t \in Tasks : pc[t] \in {"throttle", "get", "backoff", "analyze"}}

\* C1: any two GET requests of one HTTPFetcher to the same host are issued
\* at least min_delay (1 second) apart, also when several page tasks call
\* fetch_url for that host concurrently.
CX_C1 ==
    (log.kind = "get" /\ log.since # -1) => log.since >= min_delay

\* C2: in every reachable state the number of page tasks that hold a permit
\* (a fetch in flight) is at most max_concurrent_requests.
Thm_C2 == Cardinality(Holders) <= MaxConcurrent

\* more URLs than permits, every permit taken and a task kept waiting
Wit_C2 ==
    /\ Cardinality(Holders) = MaxConcurrent
    /\ permits = 0
    /\ \E t \in Tasks : pc[t] = "queued"

\* C3: fetch_url(url, retries=R) issues at most R+1 GET attempts and stops at
\* the first successful one; after the k-th failed non-terminal attempt
\* (k = 0..R-1) it sleeps 2^k seconds before the next attempt; it does not
\* sleep after the last attempt.
Thm_C3 ==
    /\ log.kind \in {"get", "attempt"} => log.attempt \in 0..retries
    /\ (log.kind = "attempt" /\ log.outcome = "200") =>
           /\ log.ret = "response" /\ log.sleep = 0
           /\ pc[log.task] \in {"analyze", "done"}
    /\ (log.kind = "attempt" /\ log.outcome \in {"500", "RequestError", "Exception"}) =>
           IF log.attempt < retries
           THEN /\ log.sleep = 2 ^ log.attempt
                /\ pc[log.task] = "backoff"
                /\ timer[log.task] = 2 ^ log.attempt
                /\ attempt[log.task] = log.attempt
           ELSE /\ log.sleep = 0
                /\ pc[log.task] = "done"
                /\ timer[log.task] = 0

\* the third attempt (k = 2) of a call with retries = 3 failed: it sleeps 4 s
Wit_C3 ==
    /\ retries = 3
    /\ log.kind = "attempt" /\ log.attempt = 2 /\ log.outcome = "RequestError"
    /\ log.sleep = 4 /\ timer[log.task] = 4

\* C4: an attempt answered with 401, 403 or 404 ends the call at once (no
\* further attempt, no backoff sleep); an attempt that fails with a transport
\* error or another error status is followed by a retry while the retry
\* budget is not exhausted.
Thm_C4 ==
    /\ (log.kind = "attempt" /\ log.outcome \in {"401", "403", "404"}) =>
           /\ log.ret = "None" /\ log.sleep = 0
           /\ pc[log.task] = "done" /\ timer[log.task] = 0
    /\ (log.kind = "attempt" /\ log.outcome \in {"500", "RequestError"}
            /\ log.attempt < retries) =>
           /\ log.ret = "none"
           /\ pc[log.task] = "backoff"

\* a 401 on the first attempt of a call that had retries left
Wit_C4 ==
    /\ log.kind = "attempt" /\ log.outcome = "401" /\ log.attempt = 0
    /\ retries >= 1
    /\ pc[log.task] = "done"

\* C5: fetch_url never raises to its caller: whatever the outcomes of its
\* attempts, when none succeeded the call gives None back.
Thm_C5 ==
    (log.kind = "attempt" /\ log.outcome # "200") =>
        /\ log.ret \in {"none", "None"}
        /\ (pc[log.task] = "done" => log.ret = "None")

\* an unexpected exception on the last attempt, after earlier failures
Wit_C5 ==
    /\ log.kind = "attempt" /\ log.outcome = "Exception"
    /\ log.attempt = retries /\ retries >= 1
    /\ log.ret = "None"

(***************************************************************************)
(* Claims about the URL selection                                          *)
(***************************************************************************)

UrlsOf(recs) == {recs[i].url : i \in 1..Len(recs)}

\* C6: when get_intelligent_urls has returned, on any of its paths (category
\* selection, relevance fallback, homepage crawl, error), the returned list
\* has at most max_urls entries.
Thm_C6 == sel_pc = "done" => Len(selected_urls) <= max_urls

\* the relevance fallback cuts a longer record list down to max_urls
Wit_C6 ==
    /\ sel_pc = "done"
    /\ sel_path = "relevance"
    /\ Len(urls_with_dates) > max_urls
    /\ Len(selected_urls) = max_urls

\* the records of the sitemap modified within the last 5 days
RecentRecords == SelectSeq(urls_with_dates,
                           LAMBDA r : r.lastmod.dated /\ r.lastmod.age <= 5)

\* the record set C7 expects the selection to draw from
ExpectedCandidates ==
    IF Len(RecentRecords) >= max_urls THEN RecentRecords ELSE urls_with_dates

\* C7: when _select_intelligent_urls has returned, every selected URL is one
\* of the recent records if at least max_urls records are recent, and one of
\* the full record set otherwise; and the categorized set is that set.
CX_C7 ==
    (sel_pc = "done" /\ sel_path \in {"categories", "relevance"}) =>
        /\ selected_urls \in Seq(UrlsOf(ExpectedCandidates))
        /\ sel_path = "categories" => urls_to_categorize = ExpectedCandidates

\* the sitemap of the scenario: 5 distinct URLs, 3 of them product URLs with
\* priority 0.9 modified today, 2 of them blog URLs with priority 0.5
\* modified 30 days ago
ScenarioProducts ==
    {i \in 1..Len(urls_with_dates) :
        /\ CategoryOf(urls_with_dates[i].url) = "products"
        /\ urls_with_dates[i].priority = 9
        /\ urls_with_dates[i].lastmod.dated
        /\ urls_with_dates[i].lastmod.age = 0}

ScenarioBlogs ==
    {i \in 1..Len(urls_with_dates) :
        /\ CategoryOf(urls_with_dates[i].url) = "blog"
        /\ urls_with_dates[i].priority = 5
        /\ urls_with_dates[i].lastmod.dated
        /\ urls_with_dates[i].lastmod.age = 30}

Scenario ==
    /\ sel_pc = "done"
    /\ sel_path \in {"categories", "relevance"}
    /\ max_urls = 4
    /\ Len(urls_with_dates) = 5
    /\ Cardinality(UrlsOf(urls_with_dates)) = 5
    /\ Cardinality(ScenarioProducts) = 3
    /\ Cardinality(ScenarioBlogs) = 2

SelectedOf(c) ==
    {selected_urls[i] : i \in 1..Len(selected_urls)} \cap
    {u \in UrlsOf(urls_with_dates) : CategoryOf(u) = c}

ThreeProductsOneBlog ==
    /\ Len(selected_urls) = 4
    /\ Cardinality(SelectedOf("products")) = 3
    /\ Cardinality(SelectedOf("blog")) = 1

ProductsOutrankBlogs ==
    \A i \in ScenarioProducts, j \in ScenarioBlogs :
        urls_with_dates[i].relevance_score > urls_with_dates[j].relevance_score

CX_C9 == Total(scoring_weights) = scoring_weights.den

OutOfRange(req) ==
    \E f \in Fields : req[f].given /\ (req[f].halves < 0 \/ req[f].halves > 2)

\* C10: a request with a component outside [0,1] is answered 422 and leaves
\* the five stored weights as they were.
Thm_C10 ==
    [][(n_updates' # n_updates /\ OutOfRange(w_request')) =>
            (w_status' = "422" /\ scoring_weights' = scoring_weights)]_vars

\* a request with a component of 1.5 next to valid ones was rejected
Wit_C10 ==
    /\ w_status = "422"
    /\ \E f \in Fields : w_request[f] = Given(3)
    /\ \E f \in Fields : w_request[f] = Given(1)
    /\ scoring_weights = normalize_weights(default_weights)

(***************************************************************************)
(* Claims about the keyword pipeline                                       *)
(***************************************************************************)

\* the weighted sum in which a sub-score whose computation raised counts 0
SumOfComputed ==
    LET part(w, r) == IF r.raised THEN 0 ELSE w * r.value
    IN  part(weights_arg.w1_frequency, sub_results.freq_score)
        + part(weights_arg.w2_tfidf, sub_results.tfidf_score)
        + part(weights_arg.w3_cooccurrence, sub_results.cooccurrence_score)
        + part(weights_arg.w4_position_title, sub_results.position_score)
        + part(weights_arg.w5_similarity_brand, sub_results.similarity_score)

\* C11: the score returned by calculate_keyword_score lies in [0,1]; a
\* sub-score whose computation raised counts as 0 in the weighted sum, and a
\* failure of the whole computation gives 0.
Thm_C11 ==
    score_pc = "done" =>
        /\ final_score >= 0 /\ final_score <= 10000
        /\ weights_arg.is_dict => final_score = 0
        /\ ~weights_arg.is_dict =>
              final_score = IF SumOfComputed < 0 THEN 0
                            ELSE IF SumOfComputed > 10000 THEN 10000
                            ELSE SumOfComputed

\* weights above 1: one sub-score raised, the others push the sum over 1
Wit_C11 ==
    /\ score_pc = "done"
    /\ sub_results.tfidf_score.raised
    /\ sub_results.freq_score = Computes(100)
    /\ SumOfComputed > 10000
    /\ final_score = 10000

TermsOf(kws) == {kws[i].term : i \in 1..Len(kws)}

\* C12: the three buckets returned by bucketize_keywords are pairwise
\* disjoint and the union of their terms is the set of input terms.
CX_C12 ==
    bucket_pc = "done" =>
        /\ \A a, b \in BucketNames :
               a # b => TermsOf(buckets[a]) \cap TermsOf(buckets[b]) = {}
        /\ UNION {TermsOf(buckets[b]) : b \in BucketNames} = TermsOf(keywords_arg)

\* C13: _deduplicate_by_similarity applied to its own output returns that
\* output unchanged.
Thm_C13 == dd_pc = "done" => dd_keywords = first_output

\* the first run removed a term and left at least two, which the second run
\* compared again
Wit_C13 ==
    /\ dd_pc = "done"
    /\ Len(first_output) >= 2
    /\ \E p \in DOMAIN similarity_matrix : similarity_matrix[p] > 85
    /\ dd_keywords = first_output

\* C15: the two terms of a comparison are both still present; when their
\* similarity exceeds the threshold exactly one of them is marked, the one
\* with the lower score and on equal scores the later one; the pair compared
\* next holds no marked term.
Thm_C15 ==
    /\ dd_log.row # 0 =>
          LET kept == IF dd_log.removed = dd_log.row THEN dd_log.col
                      ELSE dd_log.row
          IN  /\ dd_log.row \notin to_remove \ {dd_log.removed}
              /\ dd_log.col \notin to_remove \ {dd_log.removed}
              /\ dd_log.exceeded =>
                    /\ dd_log.removed \in {dd_log.row, dd_log.col}
                    /\ Cardinality(to_remove) = dd_log.marked_before + 1
                    /\ dd_keywords[dd_log.removed].score <= dd_keywords[kept].score
                    /\ dd_keywords[dd_log.removed].score = dd_keywords[kept].score
                          => dd_log.removed = dd_log.col
              /\ ~dd_log.exceeded =>
                    Cardinality(to_remove) = dd_log.marked_before
    /\ dd_pc = "loop" => dd_i \notin to_remove /\ dd_j \notin to_remove

\* two terms of equal score were too similar, the later one was marked and
\* the row goes on to a later column
Wit_C15 ==
    /\ dd_log.exceeded
    /\ dd_keywords[dd_log.row].score = dd_keywords[dd_log.col].score
    /\ dd_log.removed = dd_log.col
    /\ dd_pc = "loop"
    /\ dd_i = dd_log.row
    /\ dd_j > dd_log.col

\* the keywords of a list whose case-normalized term is b
WithBase(kws, b) == {kws[i] : i \in {j \in 1..Len(kws) : kws[j].term.base = b}}

\* C14: after the exact-match stage there is one candidate per
\* case-normalized term; a term of one provider only is that provider's
\* keyword unchanged, a term of both has the average of the two scores and a
\* source tag that names both providers.
Thm_C14 ==
    merge_pc = "done" =>
        \A b \in 1..MaxMergeTerms :
            LET y == WithBase(yake_results, b)
                k == WithBase(keybert_results, b)
                m == WithBase(merged_keywords, b)
            IN  /\ Cardinality({i \in 1..Len(merged_keywords) :
                                   merged_keywords[i].term.base = b})
                       = IF y \cup k = {} THEN 0 ELSE 1
                /\ (y # {} /\ k = {}) => m = y
                /\ (y = {} /\ k # {}) => m = k
                /\ (y # {} /\ k # {}) =>
                       \A kw \in m, a \in y, c \in k :
                           /\ 2 * kw.score = a.score + c.score
                           /\ kw.source = {"yake", "keybert"}

\* both providers emit term 1, with 0.8 and 0.6, and one of them emits
\* term 2 as well
Wit_C14 ==
    /\ merge_pc = "done"
    /\ \E a \in WithBase(yake_results, 1), c \in WithBase(keybert_results, 1) :
           a.score = 80 /\ c.score = 60
    /\ \E kw \in WithBase(merged_keywords, 1) :
           kw.score = 70 /\ kw.source = {"yake", "keybert"}
    /\ WithBase(yake_results, 2) = {}
    /\ WithBase(keybert_results, 2) # {}
    /\ WithBase(merged_keywords, 2) = WithBase(keybert_results, 2)

\* the brand-name comparison as C16 states it
BrandComparison ==
    LET k == Lower(keyword_arg)
        n == Lower(brand_info.name)
    IN  IF n = << >> THEN 0
        ELSE IF k = n THEN 100
        ELSE IF Contains(n, k) \/ Contains(k, n) THEN 70
        ELSE IF Words(k) \cap Words(n) # {} THEN 50
        ELSE 0

\* the domain comparison as C16 states it
DomainComparison ==
    LET k == Lower(keyword_arg)
        label == Lower(DomainName(brand_info.domain))
    IN  IF brand_info.domain = << >> THEN 0
        ELSE IF k = label THEN 80
        ELSE IF Contains(label, k) \/ Contains(k, label) THEN 60
        ELSE 0

\* C16: the brand-similarity sub-score is the larger of the brand-name
\* comparison (1.0 exact, 0.7 containment, 0.5 shared word, else 0) and the
\* domain comparison (0.8 exact, 0.6 containment, else 0).
CX_C16 ==
    sim_pc = "done" =>
        similarity_score = IF BrandComparison > DomainComparison
                           THEN BrandComparison ELSE DomainComparison

(***************************************************************************)
(* Claims about the domain run                                             *)
(***************************************************************************)

\* the selected pages whose chain succeeded, in the order of the tasks
Succeeded == SelectSeq(urls_to_process, LAMBDA u : chain[u] = "ok")

Thm_C18 ==
    dom_pc = "done" /\ Succeeded # << >> =>
        /\ response.kind = "DomainAnalysisResponse"
        /\ Len(response.urls) = Len(Succeeded)
        /\ \A i \in 1..Len(Succeeded) :
              response.urls[i] = process_url(Succeeded[i], "ok")

\* a run in which one page succeeded, the fetch of another gave nothing
\* and a stage of a third raised has returned a response
Wit_C18 ==
    /\ dom_pc = "done"
    /\ Succeeded # << >>
    /\ \E p \in Pages : chain[p] = "fetch_none"
    /\ \E p \in Pages : chain[p] \in ChainFailures \ {"fetch_none"}
    /\ response.kind = "DomainAnalysisResponse"

\* C19: the summary of the page results is the same in whatever order they
\* are handed to the aggregator: same tally of page types, same top
\* keywords per bucket with the same terms, scores and order.
CX_C19 == agg_pc = "done" => permuted_summary = domain_summary

(***************************************************************************)
(* Claims about the sitemap expansion                                      *)
(***************************************************************************)

\* C20: the expansion of a sitemap index terminates for every finite set of
\* sitemap documents, an index that lists itself and indexes that list each
\* other included, in parse_sitemap_with_dates as well as in parse_sitemap:
\* the outermost call eventually returns.
CX_C20 == <>(smap_pc = "done")

\* the sitemaps listed by the index of the site, in the order of the index
RootChildren == sitemap_docs[1].children

\* the records of the listed sitemaps that are urlsets, in that order
SiblingRecords ==
    SelectSeq(RootChildren, LAMBDA u : sitemap_docs[u].kind = "urlset")

\* a listed sitemap that cannot be fetched or is not XML
Fails(u) == sitemap_docs[u].kind \in {"unavailable", "malformed"}

\* C21: when a sitemap listed by an index cannot be fetched or is malformed
\* XML, only it contributes no records: the resolution returns the records
\* of every other listed sitemap, before and after it, up to max_urls.
Thm_C21 ==
    /\ smap_pc = "done"
    /\ sitemap_docs[1].kind = "sitemapindex"
    /\ \A i \in 1..Len(RootChildren) : sitemap_docs[RootChildren[i]].kind # "sitemapindex"
    => smap_result = Take(SiblingRecords, smap_call.max_urls)

\* an index lists a urlset, a sitemap that fails and another urlset, and the
\* resolution has returned the records of both urlsets
Wit_C21 ==
    /\ smap_pc = "done"
    /\ Len(RootChildren) = 3
    /\ sitemap_docs[RootChildren[1]].kind = "urlset"
    /\ Fails(RootChildren[2])
    /\ sitemap_docs[RootChildren[3]].kind = "urlset"
    /\ smap_result = <<RootChildren[1], RootChildren[3]>>

(***************************************************************************)
(* Claims about the run of the page tasks                                  *)
(***************************************************************************)

\* every task of the run has ended
AllTasksDone ==
    \A i \in 1..Len(urls_to_process) : chain[urls_to_process[i]] \in ChainOutcomes

\* C22: a page task that took a permit gives it back when its chain ends,
\* with a result, with None or after a stage raised; under fair scheduling
\* every queued task gets a permit, all tasks finish, and from then on all
\* permits are free and the request has ended.
Thm_C22 == <>[](AllTasksDone /\ Running = {} /\ dom_pc = "done")

\* a run of more tasks than permits has ended, with a result, a None from
\* the fetch and a stage that raised, and no permit is held
Wit_C22 ==
    /\ dom_pc = "done"
    /\ Len(urls_to_process) > MaxConcurrent
    /\ \E p \in Pages : chain[p] = "ok"
    /\ \E p \in Pages : chain[p] = "fetch_none"
    /\ \E p \in Pages : chain[p] \in ChainFailures \ {"fetch_none"}
    /\ Running = {}

(***************************************************************************)
(* Claims about the discovery of the sitemap                               *)
(***************************************************************************)

\* the first n candidate paths, in their order
FirstCandidates(n) == SubSeq(sitemap_candidates, 1, n)

\* the candidates answered with 200
Answered == {i \in 1..Len(sitemap_candidates) : candidate_ok[i]}

\* the lines of robots.txt that carry a directive with a URL
Directives ==
    {i \in 1..Len(robots.lines) :
        IsSitemapLine(robots.lines[i]) /\ robots.lines[i].value # ""}

\* C23: discover_sitemap probes the candidate paths in their order and
\* returns the first one answered with 200 without fetching anything after
\* it; robots.txt is fetched only after every candidate failed, its first
\* line with a non-empty sitemap directive is returned, and None is
\* returned only after all candidates and robots.txt were tried.
Thm_C23 ==
    /\ \E n \in 0..Len(sitemap_candidates) :
          \/ probed = FirstCandidates(n)
          \/ n = Len(sitemap_candidates) /\ probed = Append(FirstCandidates(n), robots_url)
    /\ disc_pc = "done" =>
          IF Answered # {}
          THEN LET k == CHOOSE i \in Answered : \A j \in Answered : i <= j
               IN  disc_result = sitemap_candidates[k] /\ probed = FirstCandidates(k)
          ELSE /\ probed = Append(sitemap_candidates, robots_url)
               /\ IF robots.ok /\ Directives # {}
                  THEN LET l == CHOOSE i \in Directives : \A j \in Directives : i <= j
                       IN  disc_result = robots.lines[l].value
                  ELSE disc_result = ""

\* every candidate failed and robots.txt held a directive without a URL and
\* then a directive with one: the second line was returned
Wit_C23 ==
    /\ disc_pc = "done"
    /\ Answered = {}
    /\ Len(robots.lines) = 2
    /\ robots.lines[1].value = ""
    /\ IsSitemapLine(robots.lines[1])
    /\ disc_result = robots.lines[2].value
    /\ disc_result # ""

(***************************************************************************)
(* Claims about the category selection                                     *)
(***************************************************************************)

\* C24: the result of _select_by_categories contains no URL twice, for every
\* record list, also one in which a URL occurs in more than one record.
CX_C24 ==
    (sel_pc = "done" /\ sel_path = "categories") => Injective(selected_urls)

\* the records of one category
InCategory(c) ==
    {i \in 1..Len(urls_to_categorize) : CategoryOf(urls_to_categorize[i].url) = c}

\* the number of entries the quotas of the five categories give
QuotaCount ==
    LET take(c) == Min(category_limits(max_urls)[c], Cardinality(InCategory(c)))
    IN  Min(max_urls, take("products") + take("blog") + take("categories")
                      + take("landing") + take("other"))

\* the entries after the quotas come in descending order of relevance: each
\* is the URL of a record that no record of a URL not yet selected outranks
TopOffByRelevance ==
    \A i \in (QuotaCount + 1)..Len(selected_urls) :
        \E k \in 1..Len(urls_to_categorize) :
            /\ urls_to_categorize[k].url = selected_urls[i]
            /\ \A l \in 1..Len(urls_to_categorize) :
                  urls_to_categorize[l].url \notin {selected_urls[j] : j \in 1..(i - 1)}
                  => urls_to_categorize[k].relevance_score
                        >= urls_to_categorize[l].relevance_score

BrandMatch(brand) ==
    /\ brand.given
    /\ brand.text # << >>
    /\ \/ Lower(cls_keyword) = Lower(brand.text)
       \/ Contains(Lower(cls_keyword), Lower(brand.text))
       \/ Contains(Lower(brand.text), Lower(cls_keyword))

\* C26: every keyword that equals, contains or is contained by the detected
\* brand name or the detected brand domain is placed in the client bucket,
\* for every page type and before any other rule.
CX_C26 ==
    (/\ cls_pc = "done"
     /\ BrandMatch(cls_brand_info.name) \/ BrandMatch(cls_brand_info.domain))
    => cls_result.bucket = "cliente"

\* a rule of the classifier selected the general bucket: no brand rule and
\* no high frequency applied, the keyword holds no word of the list of its
\* page type, and it is a key of the frequency map
RuleSelectsGeneral ==
    LET name == cls_brand_info.name.text
        domain == cls_brand_info.domain.text
        kw == Lower(cls_keyword)
    IN  /\ ~BrandMatch(cls_brand_info.name)
        /\ ~(domain # << >> /\ Contains(Lower(domain), kw))
        /\ domain_keywords.given
        /\ cls_keyword \in DOMAIN domain_keywords.map
        /\ domain_keywords.map[cls_keyword] <= high_frequency
        /\ cls_page_type = "ecommerce" => \A i \in 1..Len(kw) : kw[i] \notin product_keywords
        /\ cls_page_type = "blog" => \A i \in 1..Len(kw) : kw[i] \notin blog_keywords

\* C27: _classify_keyword_bucket never raises: for every keyword, page type,
\* brand info (a name of None included) and frequency map it returns one of
\* the three bucket names, and it returns the general bucket exactly when an
\* internal error occurred or a rule selected general.
Thm_C27 ==
    cls_pc = "done" =>
        /\ cls_result.bucket \in BucketNames
        /\ cls_result.bucket = "generales_seo"
              <=> (cls_result.raised \/ RuleSelectsGeneral)
        /\ cls_result.raised
              <=> (~cls_brand_info.name.given \/ ~cls_brand_info.domain.given)

\* the brand info of a page without a brand: the name is None, the lowering
\* raised and the keyword went to the general bucket
Wit_C27 ==
    /\ cls_pc = "done"
    /\ ~cls_brand_info.name.given
    /\ cls_brand_info.domain.given
    /\ cls_result.raised
    /\ cls_result.bucket = "generales_seo"

(***************************************************************************)
(* Claims about the weights of a running analysis                          *)
(***************************************************************************)

\* C28: the scoring weights are read-only for a running domain analysis:
\* under every interleaving of update_scoring_weights with the page tasks of
\* one analyze_domain run, all pages of the run are scored with the same
\* weight vector.
CX_C28 ==
    \A p, q \in DOMAIN weights_used : weights_used[p] = weights_used[q]

(***************************************************************************)
(* Claims about a second resolution on the same service                    *)
(***************************************************************************)

\* C29: resolution is repeatable on one SitemapService: a second call of
\* parse_sitemap for the same index returns the records the first call
\* returned.
CX_C29 ==
    (smap_pc = "done" /\ smap_call.number = 2 /\ variant = "parse_sitemap")
    => smap_result = smap_call.first

(***************************************************************************)
(* Claims about the terms the deduplication removes                        *)
(***************************************************************************)

\* the positions of the terms the run returns
Survivors == (1..Len(dd_keywords)) \ to_remove

\* C30: after _deduplicate_by_similarity every removed term is covered by a
\* survivor: a term that is returned, whose similarity to the removed term
\* exceeds the threshold and whose score is at least as high.  Stated where
\* the loops are over and the marked terms are about to be filtered out.
CX_C30 ==
    dd_pc = "filter" =>
        \A r \in to_remove :
            \E k \in Survivors :
                /\ Exceeds(SimilarityOf(dd_keywords, similarity_matrix, k, r))
                /\ dd_keywords[k].score >= dd_keywords[r].score

====
